---- MODULE Spec2Model ----
(***************************************************************************)
(* SmartCommit: the generate / validate / refine agent loop with its       *)
(* governance controller (Phase3_Submission/code/api/multi_agent.py), the  *)
(* evaluator it calls (api/evaluate_simple.py) and the safety guardrails   *)
(* (Phase3_Submission/code/api/safety.py).                                 *)
(*                                                                         *)
(* Texts.  A Python str is modelled as the sequence of its whitespace      *)
(* separated words; a word is a TLA+ string, so len(), substring tests and *)
(* concatenation are computed on the characters.  A word "x*N" stands for  *)
(* the letter x repeated N times (a long alphanumeric run), so that the    *)
(* size ceilings of the code (500, 5000, 10000, 100000 characters) are     *)
(* met with their real values.  Scores are fixed-point integers: a value   *)
(* on the 0..100 scale with two decimals is held in hundredths, a value on *)
(* the 0..1 scale with four decimals in ten-thousandths (both 0..10000).   *)
(* Wall-clock fields of a decision (timestamp, execution_time_ms) are not  *)
(* modelled.                                                               *)
(***************************************************************************)
EXTENDS Integers, Sequences, FiniteSets, TLC

VARIABLES
    pc,               \* position of generate_commit_message_multi_agent
    diff,             \* argument diff
    reference_message,\* argument reference_message
    max_iterations,   \* MultiAgentOrchestrator.max_iterations
    audit_trail,      \* GovernanceController.audit_trail
    current_message,  \* local current_message
    iteration,        \* local iteration
    model_result,     \* ModelService.generate_commit_message's result
    val_result,       \* local val_result (last in-loop validation)
    ref_result,       \* local ref_result (last refinement)
    safety,           \* input_safety / output_safety of the last execute
    result,           \* the MultiAgentResult returned
    calls,            \* execute calls started / returned, per agent
    logged,           \* decisions handed to log_agent_decision by a caller
    rate_limit_store, \* SafetyGuardrails.rate_limit_store
    now,              \* time.time()
    admitted,         \* per client, the timestamps of the admitted requests
    rate_result,      \* what the last validate_input returned
    threads,          \* per thread, its position in _check_rate_limit and its locals
    input,            \* the arguments of a call of an evaluator or guardrail function
    output,           \* what that call returned
    audit_logger,     \* AuditLogger: the three log files and session_stats
    earlier_results   \* the MultiAgentResults earlier runs of the orchestrator returned

vars == << pc, diff, reference_message, max_iterations, audit_trail,
           current_message, iteration, model_result, val_result, ref_result,
           safety, result, calls, logged, rate_limit_store, now, admitted,
           rate_result, threads, input, output, audit_logger, earlier_results >>


-----------------------------------------------------------------------------
(* Bounds of the model. *)

MaxIterBound == 3
MaxTrail == 4

-----------------------------------------------------------------------------
(* Text helpers: Python str operations on word sequences. *)

Min(a, b) == IF a <= b THEN a ELSE b
Max(a, b) == IF a >= b THEN a ELSE b

\* sum(s), by halves so that a long sequence is summed in few nested steps
RECURSIVE SumSeq(_)
SumSeq(s) ==
    IF s = << >> THEN 0
    ELSE IF Len(s) = 1 THEN s[1]
    ELSE SumSeq(SubSeq(s, 1, Len(s) \div 2)) + SumSeq(SubSeq(s, Len(s) \div 2 + 1, Len(s)))

Range(s) == { s[i] : i \in DOMAIN s }

\* the line break "\n" of a text, one character
NL == "<nl>"

IsBlob(w) == Len(w) > 2 /\ SubSeq(w, 1, 2) = "x*"

DigitValue(ch) ==
    CASE ch = "0" -> 0 [] ch = "1" -> 1 [] ch = "2" -> 2 [] ch = "3" -> 3
      [] ch = "4" -> 4 [] ch = "5" -> 5 [] ch = "6" -> 6 [] ch = "7" -> 7
      [] ch = "8" -> 8 [] ch = "9" -> 9

RECURSIVE ParseNat(_)
ParseNat(digits) ==
    IF digits = "" THEN 0
    ELSE 10 * ParseNat(SubSeq(digits, 1, Len(digits) - 1))
           + DigitValue(SubSeq(digits, Len(digits), Len(digits)))

\* a run "x*N" may carry a tail, "x*N+tail": the run followed by the tail
BlobTailAt(w) ==
    IF \E i \in 3..Len(w) : SubSeq(w, i, i) = "+"
    THEN CHOOSE i \in 3..Len(w) : SubSeq(w, i, i) = "+"
                                  /\ \A k \in 3..(i - 1) : SubSeq(w, k, k) # "+"
    ELSE Len(w) + 1

BlobRun(w) == ParseNat(SubSeq(w, 3, BlobTailAt(w) - 1))

BlobLen(w) == BlobRun(w) + (Len(w) - Min(Len(w), BlobTailAt(w)))

\* len(w) for one word
WordLen(w) == IF w = NL THEN 1 ELSE IF IsBlob(w) THEN BlobLen(w) ELSE Len(w)

\* len(text): the words, one blank between two neighbouring words, and the
\* line breaks
TextLen(t) ==
    SumSeq([i \in DOMAIN t |-> WordLen(t[i])])
      + Cardinality({i \in 1..(Len(t) - 1) : t[i] # NL /\ t[i + 1] # NL})

\* text.split(): the words without the line breaks
Split(t) == SelectSeq(t, LAMBDA w : w # NL)

\* needle in hay, for two words (Python's str.__contains__)
Contains(hay, needle) ==
    IF hay = NL \/ needle = NL THEN hay = needle
    ELSE IF IsBlob(hay) \/ IsBlob(needle)
    THEN IsBlob(hay) /\ IsBlob(needle) /\ BlobLen(needle) <= BlobLen(hay)
    ELSE \E i \in 1..(Len(hay) - Len(needle) + 1) :
            SubSeq(hay, i, i + Len(needle) - 1) = needle

\* pattern in text, for a pattern without whitespace
TextContains(t, pattern) == \E i \in DOMAIN t : Contains(t[i], pattern)

\* str.lower() of a word
Lower(w) ==
    CASE w = "Fix" -> "fix"
      [] w = "Error" -> "error"
      [] w = "Update" -> "update"
      [] OTHER -> w

LowerText(t) == [i \in DOMAIN t |-> Lower(t[i])]

\* ", ".join(items)
RECURSIVE Join(_, _)
Join(items, sep) ==
    IF items = << >> THEN ""
    ELSE IF Len(items) = 1 THEN items[1]
    ELSE items[1] \o sep \o Join(Tail(items), sep)

RECURSIVE Flatten(_)
Flatten(ss) == IF ss = << >> THEN << >> ELSE Head(ss) \o Flatten(Tail(ss))

\* round(num / den) to the nearest integer, ties to even
RoundDiv(num, den) ==
    LET q == num \div den
        r == num % den
    IN  IF 2 * r < den THEN q
        ELSE IF 2 * r > den THEN q + 1
        ELSE IF q % 2 = 0 THEN q ELSE q + 1

-----------------------------------------------------------------------------
(* api/evaluate_simple.py: CommitMessageEvaluator.                          *)

\* nltk's English stopwords, as far as the words of the model go
Stopwords == {"in", "the", "a", "to", "for"}

allowed_technical_terms ==
    {"fix", "bug", "issue", "error", "refactor", "update", "add",
     "remove", "delete", "implement", "feature", "change", "modify",
     "improve", "optimize", "clean", "rename", "move", "merge",
     "function", "method", "class", "variable", "parameter", "return",
     "import", "export", "test", "tests", "testing", "code", "file"}

\* characters word_tokenize splits off the end of a word
Punctuation == {"(", ":", ")", ","}

\* characters for which str.isalnum() is false
NonAlnum == {"(", ":", ")", ",", "_", ".", "+", "-", "*", "=", "@", "<", ">"}

\* word_tokenize of one word
Tokens(w) ==
    IF w = NL THEN << >>
    ELSE IF IsBlob(w) THEN << w >>
    ELSE IF Len(w) > 1 /\ SubSeq(w, Len(w), Len(w)) \in Punctuation
    THEN << SubSeq(w, 1, Len(w) - 1), SubSeq(w, Len(w), Len(w)) >>
    ELSE << w >>

\* word_tokenize(text.lower())
word_tokenize_lower(t) == Flatten([i \in DOMAIN t |-> Tokens(Lower(t[i]))])

isalnum(tok) ==
    IsBlob(tok) \/ (Len(tok) > 0 /\ \A i \in 1..Len(tok) : SubSeq(tok, i, i) \notin NonAlnum)

\* _get_ngrams: the n-grams in order (the Counter is read through Count)
get_ngrams(tokens, n) ==
    [i \in 1..Max(0, Len(tokens) - n + 1) |-> SubSeq(tokens, i, i + n - 1)]

Count(grams, g) == Cardinality({i \in DOMAIN grams : grams[i] = g})

RECURSIVE SumOver(_, _, _)
SumOver(S, grams1, grams2) ==
    IF S = {} THEN 0
    ELSE LET g == CHOOSE x \in S : TRUE
         IN  Min(Count(grams1, g), Count(grams2, g)) + SumOver(S \ {g}, grams1, grams2)

\* matches that are not clipped by the count of the n-gram in the reference
ClippedMatches_Unclipped(gen_ngrams, ref_ngrams) ==
    Cardinality({i \in DOMAIN gen_ngrams : gen_ngrams[i] \in Range(ref_ngrams)})

\* sum((gen_ngrams & ref_ngrams).values())
ClippedMatches(gen_ngrams, ref_ngrams) ==
    SumOver(Range(gen_ngrams), gen_ngrams, ref_ngrams)

\* _lcs: the dynamic programme over prefixes
RECURSIVE lcs_dp(_, _, _, _)
\* on a mismatch only the shorter prefix of seq1 is looked at
lcs_dp_LeftOnly(seq1, seq2, i, j) ==
    IF i = 0 \/ j = 0 THEN 0
    ELSE IF seq1[i] = seq2[j] THEN lcs_dp(seq1, seq2, i - 1, j - 1) + 1
    ELSE lcs_dp(seq1, seq2, i - 1, j)

\* _lcs(seq1, seq2): dp[i][j] of the table over prefixes
lcs_dp(seq1, seq2, i, j) ==
    IF i = 0 \/ j = 0 THEN 0
    ELSE IF seq1[i] = seq2[j] THEN lcs_dp(seq1, seq2, i - 1, j - 1) + 1
    ELSE Max(lcs_dp(seq1, seq2, i - 1, j), lcs_dp(seq1, seq2, i, j - 1))

lcs(seq1, seq2) == lcs_dp(seq1, seq2, Len(seq1), Len(seq2))

\* matches counted over the distinct n-grams
rouge_n_Distinct(gen_tokens, ref_tokens, n) ==
    << Cardinality(Range(get_ngrams(gen_tokens, n)) \cap Range(get_ngrams(ref_tokens, n))),
       Len(get_ngrams(ref_tokens, n)) >>

\* _rouge_n, as the pair <<matches, total_ref>> (0/0 is the code's 0.0)
rouge_n(gen_tokens, ref_tokens, n) ==
    << ClippedMatches(get_ngrams(gen_tokens, n), get_ngrams(ref_tokens, n)),
       Len(get_ngrams(ref_tokens, n)) >>

\* _rouge_l, as the pair <<lcs_length, len(ref_tokens)>>
rouge_l(gen_tokens, ref_tokens) == << lcs(gen_tokens, ref_tokens), Len(ref_tokens) >>

\* round(ratio * 100, 2) in hundredths
Pct(pair) == IF pair[2] = 0 THEN 0 ELSE RoundDiv(10000 * pair[1], pair[2])

compute_rouge(generated, reference) ==
    LET gen_tokens == word_tokenize_lower(generated)
        ref_tokens == word_tokenize_lower(reference)
    IN  [rouge1 |-> Pct(rouge_n(gen_tokens, ref_tokens, 1)),
         rouge2 |-> Pct(rouge_n(gen_tokens, ref_tokens, 2)),
         rougeL |-> Pct(rouge_l(gen_tokens, ref_tokens))]

\* floor(sqrt(x))
ISqrt(x) == CHOOSE g \in 0..10000 : g * g <= x /\ (g + 1) * (g + 1) > x

\* 10000 * exp(y) for y = num/den >= 0, by the series sum y^k / k!
RECURSIVE ExpSeries(_, _, _, _)
ExpSeries(num, den, k, term) ==
    IF term = 0 THEN 0
    ELSE term + ExpSeries(num, den, k + 1, (term * num) \div (den * (k + 1)))

\* compute_bleu in hundredths.  The geometric mean and the brevity penalty are
\* irrational unless every precision is 1 or one is 0 and no penalty applies;
\* they are then computed in fixed point (four digits, rounded down).
compute_bleu(generated, reference) ==
    LET gen_tokens == word_tokenize_lower(generated)
        ref_tokens == word_tokenize_lower(reference)
        matches(n) == ClippedMatches(get_ngrams(gen_tokens, n), get_ngrams(ref_tokens, n))
        total(n) == Len(get_ngrams(gen_tokens, n))
        M == matches(1) * matches(2) * matches(3) * matches(4)
        T == total(1) * total(2) * total(3) * total(4)
        c == Len(gen_tokens)
        r == Len(ref_tokens)
        geo == IF M = T THEN 10000 ELSE ISqrt(ISqrt((M * 1000000) \div T) * 100000)
        bp == IF c >= r THEN 10000
              ELSE 100000000 \div ExpSeries(r - c, c, 0, 10000)
    IN  IF c = 0 THEN 0
        ELSE IF \E n \in 1..4 : total(n) = 0 \/ matches(n) = 0 THEN 0
        ELSE (bp * geo) \div 10000

\* compute_word_overlap in ten-thousandths
compute_word_overlap(generated, reference) ==
    LET gen_words == Range(word_tokenize_lower(generated)) \ Stopwords
        ref_words == Range(word_tokenize_lower(reference)) \ Stopwords
    IN  IF gen_words = {} \/ ref_words = {} THEN 0
        ELSE RoundDiv(10000 * Cardinality(gen_words \cap ref_words),
                      Cardinality(gen_words \cup ref_words))

extract_meaningful_tokens(text) ==
    SelectSeq(word_tokenize_lower(text),
              LAMBDA token : isalnum(token) /\ token \notin Stopwords /\ WordLen(token) > 2)

\* first position of needle in the word hay, 0 when absent
IndexOf(hay, needle) ==
    IF ~Contains(hay, needle) \/ IsBlob(hay) \/ hay = NL THEN 0
    ELSE CHOOSE i \in 1..(Len(hay) - Len(needle) + 1) :
            /\ SubSeq(hay, i, i + Len(needle) - 1) = needle
            /\ \A k \in 1..(i - 1) : SubSeq(hay, k, k + Len(needle) - 1) # needle

\* position of the first line break at or after i, 0 when there is none
NextNL(t, i) ==
    IF \E j \in i..Len(t) : t[j] = NL
    THEN CHOOSE j \in i..Len(t) : t[j] = NL /\ \A k \in i..(j - 1) : t[k] # NL
    ELSE 0

\* re.sub(r'^[+-]', '', diff, flags=re.MULTILINE): the sign that opens a line
StripSigns(t) ==
    LET stripped(i) ==
            IF /\ (i = 1 \/ t[i - 1] = NL)
               /\ t[i] # NL /\ ~IsBlob(t[i])
               /\ SubSeq(t[i], 1, 1) \in {"+", "-"}
            THEN SubSeq(t[i], 2, Len(t[i]))
            ELSE t[i]
    IN  SelectSeq([i \in DOMAIN t |-> stripped(i)], LAMBDA w : w # "")

\* whether the match of a scaffolding pattern starts in word i: 'index' inside
\* the word, or the word ending in 'diff' with the next word opening '--git'
StartsMatch(t, i, pat) ==
    /\ t[i] # NL
    /\ IF pat = "index" THEN Contains(t[i], "index")
       ELSE /\ ~IsBlob(t[i]) /\ Len(t[i]) >= 4
            /\ SubSeq(t[i], Len(t[i]) - 3, Len(t[i])) = "diff"
            /\ i < Len(t) /\ t[i + 1] # NL /\ ~IsBlob(t[i + 1])
            /\ Len(t[i + 1]) >= 5 /\ SubSeq(t[i + 1], 1, 5) = "--git"

\* re.sub(pat + r'.*?\n', '', text): from the match to the end of its line, the
\* line break included; what stood before the match in its word is joined to
\* the word that opens the next line
RECURSIVE RemoveToEol(_, _)
RemoveToEol(t, pat) ==
    IF t = << >> THEN << >>
    ELSE IF StartsMatch(t, 1, pat) /\ NextNL(t, 1) # 0
    THEN LET at == IF pat = "index" THEN IndexOf(t[1], "index") ELSE Len(t[1]) - 3
             prefix == SubSeq(t[1], 1, at - 1)
             rest == RemoveToEol(SubSeq(t, NextNL(t, 1) + 1, Len(t)), pat)
         IN  IF prefix = "" THEN rest
             ELSE IF rest # << >> /\ rest[1] # NL /\ ~IsBlob(rest[1])
             THEN << prefix \o rest[1] >> \o Tail(rest)
             ELSE << prefix >> \o rest
    ELSE << t[1] >> \o RemoveToEol(Tail(t), pat)

\* re.sub(r'@@.*?@@', '', text), for hunk markers standing as words of their own
RECURSIVE RemoveHunks(_)
RemoveHunks(t) ==
    IF t = << >> THEN << >>
    ELSE IF t[1] = "@@" /\ (\E j \in 2..Len(t) : t[j] = "@@" /\ \A k \in 2..j : t[k] # NL)
    THEN LET j == CHOOSE j \in 2..Len(t) : t[j] = "@@" /\ \A k \in 2..(j - 1) : t[k] # "@@"
         IN  RemoveHunks(SubSeq(t, j + 1, Len(t)))
    ELSE << t[1] >> \o RemoveHunks(Tail(t))

extract_diff_tokens(d) ==
    word_tokenize_lower(
        RemoveHunks(RemoveToEol(RemoveToEol(StripSigns(d), "diff --git"), "index")))

\* a threshold that is compared with >= instead of >
hallucination_results_AtThreshold(ungrounded_tokens, total_checked) ==
    [detected |-> total_checked # 0 /\ 10 * Len(ungrounded_tokens) >= total_checked,
     hallucination_rate |-> IF total_checked = 0 THEN 0
                            ELSE RoundDiv(10000 * Len(ungrounded_tokens), total_checked),
     ungrounded_tokens |-> ungrounded_tokens,
     total_tokens_checked |-> total_checked]

\* the result dict of detect_hallucination; hallucination_rate in ten-thousandths
hallucination_results(ungrounded_tokens, total_checked) ==
    [detected |-> total_checked # 0 /\ 10 * Len(ungrounded_tokens) > total_checked,
     hallucination_rate |-> IF total_checked = 0 THEN 0
                            ELSE RoundDiv(10000 * Len(ungrounded_tokens), total_checked),
     ungrounded_tokens |-> ungrounded_tokens,
     total_tokens_checked |-> total_checked]

\* the loop of detect_hallucination over the tokens that are checked
check_grounding(checked, diff_tokens) ==
    hallucination_results(
        SelectSeq(checked,
                  LAMBDA token : ~\E i \in DOMAIN diff_tokens :
                                     Contains(Lower(diff_tokens[i]), Lower(token))),
        Len(checked))

detect_hallucination(message, d) ==
    check_grounding(
        SelectSeq(extract_meaningful_tokens(message),
                  LAMBDA token : Lower(token) \notin allowed_technical_terms),
        extract_diff_tokens(d))

\* Phase3_Submission/code/api/evaluate.py: detect_hallucination, the same
\* statements but for the threshold, hallucination_rate > 0.15
detect_hallucination_phase3(message, d) ==
    LET report == detect_hallucination(message, d)
    IN  [report EXCEPT
            !.detected = /\ report.total_tokens_checked # 0
                         /\ 20 * Len(report.ungrounded_tokens)
                               > 3 * report.total_tokens_checked]

\* _compute_quality_score in ten-thousandths:
\* round(0.3 * bleu/100 + 0.3 * rougeL/100 + 0.3 * semantic + penalty, 4)
compute_quality_score(results) ==
    LET bleu == results.bleu
        rougeL == results.rouge.rougeL
        semantic == results.semantic_similarity
        hallucination_penalty == IF results.hallucination.detected THEN 0 ELSE 1000
    IN  RoundDiv(3 * (bleu + rougeL + semantic), 10) + hallucination_penalty

\* results['quality_score'] = quality_score
with_quality_score(results) == results @@ [quality_score |-> compute_quality_score(results)]

evaluate_message(generated, reference, d) ==
    with_quality_score([bleu |-> compute_bleu(generated, reference),
                        rouge |-> compute_rouge(generated, reference),
                        semantic_similarity |-> compute_word_overlap(generated, reference),
                        hallucination |-> detect_hallucination(generated, d)])

-----------------------------------------------------------------------------
(* Phase3_Submission/code/api/safety.py: the severity and confidence         *)
(* classifiers.  Python passes any value in any position, so the arguments   *)
(* are tagged values: a bool counts as 0 or 1 in a comparison and a float is *)
(* false exactly when it is 0.0.                                             *)

PyBool(b) == [type |-> "bool", v |-> IF b THEN 1 ELSE 0]
PyFloat(x) == [type |-> "float", v |-> x]
Truthy(x) == x.v # 0
\* the value as a number, in ten-thousandths
Number(x) == IF x.type = "bool" THEN 10000 * x.v ELSE x.v

HALLUCINATION_LOW_THRESHOLD == 1000
HALLUCINATION_MEDIUM_THRESHOLD == 2000
HALLUCINATION_HIGH_THRESHOLD == 3500

\* thresholds that are compared with <= instead of <
assess_hallucination_severity_Inclusive(hallucination_rate, hallucination_detected) ==
    IF ~Truthy(hallucination_detected) THEN "NONE"
    ELSE IF Number(hallucination_rate) <= HALLUCINATION_LOW_THRESHOLD THEN "LOW"
    ELSE IF Number(hallucination_rate) <= HALLUCINATION_MEDIUM_THRESHOLD THEN "MEDIUM"
    ELSE IF Number(hallucination_rate) <= HALLUCINATION_HIGH_THRESHOLD THEN "HIGH"
    ELSE "CRITICAL"

assess_hallucination_severity(hallucination_rate, hallucination_detected) ==
    IF ~Truthy(hallucination_detected) THEN "NONE"
    ELSE IF Number(hallucination_rate) < HALLUCINATION_LOW_THRESHOLD THEN "LOW"
    ELSE IF Number(hallucination_rate) < HALLUCINATION_MEDIUM_THRESHOLD THEN "MEDIUM"
    ELSE IF Number(hallucination_rate) < HALLUCINATION_HIGH_THRESHOLD THEN "HIGH"
    ELSE "CRITICAL"

\* a MEDIUM branch that uses the bands of the branch for LOW and NONE
get_confidence_level_MediumAsLow(quality_score, hallucination_severity) ==
    IF hallucination_severity = "CRITICAL" THEN "VERY_LOW"
    ELSE IF hallucination_severity = "HIGH"
    THEN (IF quality_score < 3000 THEN "VERY_LOW" ELSE "LOW")
    ELSE IF quality_score >= 5000 THEN "HIGH"
    ELSE IF quality_score >= 3500 THEN "MEDIUM"
    ELSE IF quality_score >= 2000 THEN "LOW"
    ELSE "VERY_LOW"

get_confidence_level(quality_score, hallucination_severity) ==
    IF hallucination_severity = "CRITICAL" THEN "VERY_LOW"
    ELSE IF hallucination_severity = "HIGH"
    THEN (IF quality_score < 3000 THEN "VERY_LOW" ELSE "LOW")
    ELSE IF hallucination_severity = "MEDIUM"
    THEN (IF quality_score >= 4500 THEN "MEDIUM"
          ELSE IF quality_score >= 3000 THEN "LOW"
          ELSE "VERY_LOW")
    ELSE IF quality_score >= 5000 THEN "HIGH"
    ELSE IF quality_score >= 3500 THEN "MEDIUM"
    ELSE IF quality_score >= 2000 THEN "LOW"
    ELSE "VERY_LOW"

-----------------------------------------------------------------------------
(* multi_agent.py: GovernanceController.                                     *)

\* dict.get(key, default)
Get(d, key, default) == IF key \in DOMAIN d THEN d[key] ELSE default

\* len(repr(list of str))
ListReprLen(items) ==
    2 + SumSeq([i \in DOMAIN items |-> Len(items[i]) + 2]) + 2 * Max(0, Len(items) - 1)

\* len(repr(list of tokens))
TokenListReprLen(items) ==
    2 + SumSeq([i \in DOMAIN items |-> WordLen(items[i]) + 2]) + 2 * Max(0, Len(items) - 1)

Digits(n) == Len(ToString(n))

malicious_patterns == << "<script>", "eval(", "exec(", "__import__" >>

check_required_fields(agent_name, input_data) ==
    IF agent_name = "GeneratorAgent"
    THEN "diff" \in DOMAIN input_data /\ input_data["diff"] # << >>
    ELSE IF agent_name = "ValidatorAgent"
    THEN "message" \in DOMAIN input_data /\ "diff" \in DOMAIN input_data
    ELSE IF agent_name = "RefinerAgent"
    THEN "message" \in DOMAIN input_data /\ "feedback" \in DOMAIN input_data
    ELSE TRUE

check_size_limits(input_data) ==
    /\ TextLen(Get(input_data, "diff", << >>)) < 100000
    /\ TextLen(Get(input_data, "message", << >>)) < 5000

\* pattern in str(input_data): in one of the texts, or in the feedback's strings
InputStrContains(input_data, pattern) ==
    \/ \E key \in DOMAIN input_data \cap {"diff", "message", "reference_message"} :
          TextContains(input_data[key], pattern)
    \/ /\ "feedback" \in DOMAIN input_data
       /\ \E key \in {"issues", "suggestions"} :
             \E i \in DOMAIN input_data["feedback"][key] :
                Contains(input_data["feedback"][key][i], pattern)

check_malicious_content(input_data) ==
    ~\E k \in DOMAIN malicious_patterns : InputStrContains(input_data, malicious_patterns[k])

validate_agent_input(agent_name, input_data) ==
    LET has_required_fields == check_required_fields(agent_name, input_data)
        within_size_limits == check_size_limits(input_data)
        no_malicious_content == check_malicious_content(input_data)
    IN  [has_required_fields |-> has_required_fields,
         within_size_limits |-> within_size_limits,
         no_malicious_content |-> no_malicious_content,
         passed |-> has_required_fields /\ within_size_limits /\ no_malicious_content]

check_output_format(agent_name, output_data) ==
    IF agent_name = "GeneratorAgent"
    THEN "message" \in DOMAIN output_data   \* every message of the model is a str
    ELSE IF agent_name = "ValidatorAgent"
    THEN "is_valid" \in DOMAIN output_data /\ "feedback" \in DOMAIN output_data
    ELSE IF agent_name = "RefinerAgent"
    THEN "refined_message" \in DOMAIN output_data
    ELSE TRUE

\* len(str(output_data)) of the three agents' output dicts: the length of the
\* dict's fixed text plus that of its variable parts (a float is counted with
\* the width of 0.0, so the sum is within some ten characters of Python's)
GENERATOR_OUTPUT_REPR == 322
VALIDATOR_OUTPUT_REPR == 414
REFINER_OUTPUT_REPR == 202
METRICS_DEFAULT_REPR == 115
METRICS_EVALUATED_REPR == 236

MetricsReprLen(metrics) ==
    IF "hallucination" \in DOMAIN metrics
    THEN METRICS_EVALUATED_REPR
           + TokenListReprLen(metrics["hallucination"].ungrounded_tokens) - 2
           - (IF metrics["hallucination"].detected THEN 1 ELSE 0)
    ELSE METRICS_DEFAULT_REPR

OutputStrLen(agent_name, output_data) ==
    IF agent_name = "GeneratorAgent"
    THEN GENERATOR_OUTPUT_REPR + TextLen(output_data["message"])
    ELSE IF agent_name = "ValidatorAgent"
    THEN VALIDATOR_OUTPUT_REPR
           + (IF output_data["is_valid"] THEN 0 ELSE 14)
           + 2 * Len(output_data["feedback"].severity)
           + 2 * Len(output_data["feedback"].confidence)
           + (ListReprLen(output_data["feedback"].issues) - 2)
           + (ListReprLen(output_data["feedback"].suggestions) - 2)
           + (Digits(Len(output_data["feedback"].issues)) - 1)
           + (MetricsReprLen(output_data["metrics"]) - 2)
    ELSE REFINER_OUTPUT_REPR
           + TextLen(output_data["refined_message"])
           + (ListReprLen(output_data["changes_made"]) - 2)
           + Len(output_data["reasoning"])
           + (Digits(output_data["metadata"].original_length) - 1)
           + (Digits(output_data["metadata"].refined_length) - 1)

check_unsafe_output(agent_name, output_data) == OutputStrLen(agent_name, output_data) < 10000

\* a check without the bounds on the length of the generator's message
check_quality_NoBounds(agent_name, output_data) == TRUE

check_quality(agent_name, output_data) ==
    IF agent_name = "GeneratorAgent"
    THEN LET message == Get(output_data, "message", << >>)
         IN  10 <= TextLen(message) /\ TextLen(message) <= 500
    ELSE TRUE

validate_agent_output(agent_name, output_data) ==
    LET has_valid_format == check_output_format(agent_name, output_data)
        no_unsafe_content == check_unsafe_output(agent_name, output_data)
        meets_quality_threshold == check_quality(agent_name, output_data)
    IN  [has_valid_format |-> has_valid_format,
         no_unsafe_content |-> no_unsafe_content,
         meets_quality_threshold |-> meets_quality_threshold,
         passed |-> has_valid_format /\ no_unsafe_content /\ meets_quality_threshold]

\* a log that puts the newest decision first
log_agent_decision_Prepend(trail, decision) == << decision >> \o trail

\* a log that keeps only the latest decision of the run in its last slot
log_agent_decision_Overwrite(trail, decision) ==
    IF trail = << >> THEN << decision >> ELSE [trail EXCEPT ![Len(trail)] = decision]

\* self.audit_trail.append(decision)
log_agent_decision(trail, decision) == Append(trail, decision)

-----------------------------------------------------------------------------
(* multi_agent.py: the three agents.  execute is an operator that returns   *)
(* what the call did: whether it raised, the two safety checks it made, the *)
(* output_data it returns and the AgentDecision it logs.                    *)

NoChecks == [passed |-> TRUE]

Raise(input_safety, output_safety) ==
    [raised |-> TRUE, input_safety |-> input_safety, output_safety |-> output_safety]

Return(input_safety, output_safety, output_data, decision) ==
    [raised |-> FALSE, input_safety |-> input_safety, output_safety |-> output_safety,
     output_data |-> output_data, decision |-> decision]

\* if not input_safety["passed"]: raise ValueError
InputRaises(input_safety) == ~input_safety.passed

\* an output check whose result is not looked at
OutputRaises_Never(output_safety) == FALSE

\* if not output_safety["passed"]: raise ValueError
OutputRaises(output_safety) == ~output_safety.passed

AgentDecision(agent_name, action, input_data, output_data, reasoning, safety_check) ==
    [agent_name |-> agent_name, action |-> action, input_data |-> input_data,
     output_data |-> output_data, reasoning |-> reasoning, safety_check |-> safety_check]

GeneratorReasoning ==
    "Generated using Gemini 2.0 Flash with improved prompt template. "
      \o "Applied temperature=0.1 for consistency. Used few-shot examples for context."

ErrorMessage == << "Error", "generating", "message" >>

\* message = result.get('message', '') if result.get('success') else "Error ..."
GeneratedMessage(model) ==
    IF Get(model, "success", FALSE) THEN Get(model, "message", << >>) ELSE ErrorMessage

\* what every execute does with its two checks: raise on the one that did
\* not pass, else log the decision and return output_data
Outcome(name, action, input_safety, output_safety, output_data, summary_in, summary_out) ==
    IF InputRaises(input_safety) THEN Raise(input_safety, NoChecks)
    ELSE IF OutputRaises(output_safety) THEN Raise(input_safety, output_safety)
    ELSE Return(input_safety, output_safety, output_data,
                AgentDecision(name, action, summary_in, summary_out, output_data.reasoning,
                              [input |-> input_safety, output |-> output_safety]))

GeneratorOutput(message) == [message |-> message, reasoning |-> GeneratorReasoning]

GeneratorReturn(d, input_safety, output_data) ==
    Outcome("GeneratorAgent", "generate_initial_message", input_safety,
            validate_agent_output("GeneratorAgent", output_data), output_data,
            [diff_size |-> TextLen(d)],
            [message_length |-> TextLen(output_data.message)])

\* GeneratorAgent.execute(diff), the model service answering `model`
GeneratorExecute(d, model) ==
    GeneratorReturn(d,
                    validate_agent_input("GeneratorAgent", [diff |-> d, config |-> << >>]),
                    GeneratorOutput(GeneratedMessage(model)))

\* f"{x:.2f}" and f"{x:.1%}" of a value in ten-thousandths
Pad2(n) == IF n < 10 THEN "0" \o ToString(n) ELSE ToString(n)
Format2f(x) == ToString(RoundDiv(x, 100) \div 100) \o "." \o Pad2(RoundDiv(x, 100) % 100)
FormatPct1(x) == ToString(RoundDiv(x, 10) \div 10) \o "." \o ToString(RoundDiv(x, 10) % 10) \o "%"

DefaultMetrics ==
    [bleu |-> 0, rouge_l |-> 0, semantic_similarity |-> 0,
     hallucination_detected |-> FALSE, ungrounded_ratio |-> 0]

\* ValidatorAgent._generate_suggestions
RECURSIVE generate_suggestions(_)
generate_suggestions(issues) ==
    IF issues = << >> THEN << >>
    ELSE LET issue == Head(issues)
         IN  (IF Contains(issue, "Hallucination")
                THEN << "Remove ungrounded tokens not present in diff" >> ELSE << >>)
             \o (IF Contains(issue, "Low quality")
                   THEN << "Add more specific details about code changes" >> ELSE << >>)
             \o (IF Contains(issue, "too short")
                   THEN << "Expand message to include what was changed and why" >> ELSE << >>)
             \o (IF Contains(issue, "too long")
                   THEN << "Condense message to focus on key changes" >> ELSE << >>)
             \o generate_suggestions(Tail(issues))

\* metrics that are evaluated without a reference too
ValidatorMetrics_AlwaysEvaluated(message, d, reference) ==
    evaluate_message(d, message, reference)

\* the metrics the validator evaluates: the evaluator is called as
\* evaluate_message(diff, message, reference_message), its parameters being
\* (generated, reference, diff)
ValidatorMetrics(message, d, reference) ==
    IF reference # << >> THEN evaluate_message(d, message, reference) ELSE DefaultMetrics

ValidatorReasoning(issues, severity, confidence, is_valid) ==
    "Validated message using BLEU/ROUGE/semantic similarity metrics. "
      \o "Detected " \o ToString(Len(issues)) \o " issues. Severity: " \o severity
      \o ", Confidence: " \o confidence \o ". "
      \o "Decision: " \o (IF is_valid THEN "PASS" ELSE "NEEDS_REFINEMENT")

\* the verdict of ValidatorAgent.execute on the metrics: its output_data
ValidatorOutput(message, metrics) ==
    LET hallucination_detected == Get(metrics, "hallucination_detected", FALSE)
        ungrounded_ratio == Get(metrics, "ungrounded_ratio", 0)
        severity == assess_hallucination_severity(PyBool(hallucination_detected),
                                                  PyFloat(ungrounded_ratio))
        quality_score == Get(metrics, "quality_score", 5000)
        confidence == get_confidence_level(quality_score, severity)
        is_valid == /\ severity \in {"NONE", "LOW"}
                    /\ confidence \in {"MEDIUM", "HIGH"}
                    /\ quality_score >= 3000
        issues ==
            (IF hallucination_detected
               THEN << "Hallucination detected (" \o FormatPct1(ungrounded_ratio)
                         \o " ungrounded tokens)" >>
               ELSE << >>)
            \o (IF quality_score < 3000
                  THEN << "Low quality score (" \o Format2f(quality_score) \o ")" >>
                  ELSE << >>)
            \o (IF TextLen(message) < 10 THEN << "Message too short (< 10 chars)" >> ELSE << >>)
            \o (IF TextLen(message) > 500 THEN << "Message too long (> 500 chars)" >> ELSE << >>)
    IN  [is_valid |-> is_valid,
         feedback |-> [is_valid |-> is_valid, issues |-> issues,
                       suggestions |-> generate_suggestions(issues),
                       severity |-> severity, confidence |-> confidence],
         metrics |-> metrics,
         reasoning |-> ValidatorReasoning(issues, severity, confidence, is_valid)]

ValidatorReturn(message, input_safety, output_data) ==
    Outcome("ValidatorAgent", "validate_message", input_safety,
            validate_agent_output("ValidatorAgent", output_data), output_data,
            [message_length |-> TextLen(message)],
            [is_valid |-> output_data.is_valid,
             issues_count |-> Len(output_data.feedback.issues)])

\* ValidatorAgent.execute(message, diff, reference_message)
ValidatorExecute(message, d, reference) ==
    ValidatorReturn(message,
                    validate_agent_input("ValidatorAgent",
                                         [message |-> message, diff |-> d,
                                          reference_message |-> reference]),
                    ValidatorOutput(message, ValidatorMetrics(message, d, reference)))

\* the first n characters of a word
CutWord(w, n) ==
    IF w = NL THEN w
    ELSE IF IsBlob(w) THEN "x*" \o ToString(Min(n, BlobRun(w)))
    ELSE SubSeq(w, 1, n)

\* text[:n]; a blank that would end the result is left out
RECURSIVE TakeChars(_, _)
TakeChars(t, n) ==
    IF t = << >> \/ n <= 0 THEN << >>
    ELSE LET w == t[1]
             sep == IF Len(t) > 1 /\ w # NL /\ t[2] # NL THEN 1 ELSE 0
         IN  IF WordLen(w) >= n THEN << CutWord(w, n) >>
             ELSE << w >> \o TakeChars(Tail(t), n - WordLen(w) - sep)

\* text + tail, the tail following the last character without a blank
GlueTail(t, tail) ==
    IF t = << >> \/ t[Len(t)] = NL THEN t \o << tail >>
    ELSE LET w == t[Len(t)]
         IN  SubSeq(t, 1, Len(t) - 1) \o << IF IsBlob(w) THEN w \o "+" \o tail ELSE w \o tail >>

\* refined[:497] + "..."
Truncate497(t) ==
    LET cut == TakeChars(t, 497)
    IN  IF TextLen(cut) = Min(497, TextLen(t)) THEN GlueTail(cut, "...")
        ELSE cut \o << "..." >>

common_words == {"fix", "add", "remove", "update", "change", "refactor",
                 "the", "a", "to", "in", "for"}

\* if "too short" in issue and len(refined) < 10, on the pair <<refined, changes>>
ExpandShort(state, issue) ==
    IF Contains(issue, "too short") /\ TextLen(state[1]) < 10
    THEN << << "Update", "code:" >> \o state[1], Append(state[2], "Expanded short message") >>
    ELSE state

\* if "too long" in issue and len(refined) > 500
TruncateLong(state, issue) ==
    IF Contains(issue, "too long") /\ TextLen(state[1]) > 500
    THEN << Truncate497(state[1]), Append(state[2], "Truncated long message") >>
    ELSE state

\* if len(filtered_words) < len(message_words)
KeepFiltered(state, message_words, filtered_words) ==
    IF Len(filtered_words) < Len(message_words)
    THEN << filtered_words, Append(state[2], "Removed ungrounded tokens") >>
    ELSE state

\* filtered_words: the words found in diff_words or in common_words
FilterWords(state, message_words, diff_words) ==
    KeepFiltered(state, message_words,
                 SelectSeq(message_words,
                           LAMBDA w : Lower(w) \in diff_words \/ Lower(w) \in common_words))

\* if "Hallucination" in issue
RemoveUngrounded(state, issue, d) ==
    IF Contains(issue, "Hallucination")
    THEN FilterWords(state, Split(state[1]), Range(LowerText(Split(d))))
    ELSE state

\* one turn of the loop `for issue in issues` of _apply_refinements
RefineForIssue(state, issue, d) ==
    RemoveUngrounded(TruncateLong(ExpandShort(state, issue), issue), issue, d)

RECURSIVE RefineLoop(_, _, _)
RefineLoop(state, issues, d) ==
    IF issues = << >> THEN state
    ELSE RefineLoop(RefineForIssue(state, Head(issues), d), Tail(issues), d)

\* if not changes and suggestions: changes.append("Applied LLM-based refinement")
LLMFallback(state, suggestions) ==
    IF state[2] = << >> /\ suggestions # << >>
    THEN << state[1], << "Applied LLM-based refinement" >> >>
    ELSE state

\* RefinerAgent._apply_refinements: <<refined, changes>>
apply_refinements(message, suggestions, issues, d) ==
    LLMFallback(RefineLoop(<< message, << >> >>, issues, d), suggestions)

\* a reasoning made of the changes alone
RefinerReasoning_ChangesOnly(changes_made) == Join(changes_made, ", ")

RefinerReasoning(changes_made) ==
    "Applied " \o ToString(Len(changes_made)) \o " refinements based on validator feedback. "
      \o "Changes: " \o Join(changes_made, ", ")

RefinerData(message, refined_message, changes_made, reasoning) ==
    [refined_message |-> refined_message, changes_made |-> changes_made,
     reasoning |-> reasoning,
     metadata |-> [original_length |-> TextLen(message),
                   refined_length |-> TextLen(refined_message)]]

\* the output_data of RefinerAgent.execute: the message as it is on a valid
\* verdict, else what _apply_refinements made of it
RefinerOutput(message, feedback, applied) ==
    IF Get(feedback, "is_valid", FALSE)
    THEN RefinerData(message, message, << >>,
                     "Message passed validation. No refinement needed.")
    ELSE RefinerData(message, applied[1], applied[2], RefinerReasoning(applied[2]))

RefinerReturn(message, input_safety, output_data) ==
    Outcome("RefinerAgent", "refine_message", input_safety,
            validate_agent_output("RefinerAgent", output_data), output_data,
            [original_length |-> TextLen(message)],
            [refined_length |-> TextLen(output_data.refined_message),
             changes_count |-> Len(output_data.changes_made)])

\* RefinerAgent.execute(message, feedback, diff)
RefinerExecute(message, feedback, d) ==
    RefinerReturn(message,
                  validate_agent_input("RefinerAgent",
                                       [message |-> message, feedback |-> feedback, diff |-> d]),
                  RefinerOutput(message, feedback,
                                apply_refinements(message, Get(feedback, "suggestions", << >>),
                                                  Get(feedback, "issues", << >>), d)))

-----------------------------------------------------------------------------
(* multi_agent.py: MultiAgentOrchestrator.generate_commit_message_multi_agent *)
(* on a new orchestrator, one action per agent step.                          *)

OrchUnchanged ==
    UNCHANGED << logged, rate_limit_store, now, admitted, rate_result, threads, input, output,
                 audit_logger, earlier_results >>

Unset == [unset |-> TRUE]
IsSet(x) == "unset" \notin DOMAIN x

Agents == {"GeneratorAgent", "ValidatorAgent", "RefinerAgent"}

\* the inputs of a run
Diffs ==
    { << >>,
      << "total", "price", "quantity" >>,
      << "-total", "price", NL, "+total", "price", "quantity" >>,
      << "total" >>,
      << "total", "price", "quantity", "total" >>,
      << "eval(", "total" >>,
      << "x*100000" >>,
      << "x*10000", "total" >> }

References == { << >>, << "fix", "total", "price" >>, << "<script>" >> }

\* what the model service may answer: a message, or a failure
Messages ==
    { << "Fix", "total", "price" >>,
      << "fix", "bug" >>,
      << "x*600" >>,
      << "eval(", "total", "price" >>,
      << "total", "price", "quantity", "total" >> }

ModelResponses ==
    { [success |-> TRUE, message |-> m] : m \in Messages }
      \cup { [success |-> FALSE, error |-> "generation failed"] }

\* The three execute methods are functions of their arguments; their values
\* over the arguments a run of the model can make are computed once.
GeneratorResults ==
    [d \in Diffs, model \in ModelResponses |-> GeneratorExecute(d, model)]

\* the messages a run can hold in current_message
RunMessages ==
    { GeneratorResults[x[1], x[2]].output_data.message :
        x \in { y \in Diffs \X ModelResponses : ~GeneratorResults[y[1], y[2]].raised } }

ValidatorResults ==
    [message \in RunMessages, d \in Diffs, reference \in References |->
        ValidatorExecute(message, d, reference)]

\* the feedback a validation can return
Feedbacks ==
    { ValidatorResults[x[1], x[2], x[3]].output_data.feedback :
        x \in { y \in RunMessages \X Diffs \X References :
                  ~ValidatorResults[y[1], y[2], y[3]].raised } }

RefinerResults ==
    [message \in RunMessages, feedback \in Feedbacks, d \in Diffs |->
        RefinerExecute(message, feedback, d)]

\* a loop that makes one pass more than the budget
LoopContinues_Inclusive(i, max) == i <= max

\* a loop that stops one pass before the budget is used
LoopContinues_Short(i, max) == i + 1 < max

\* while iteration < self.max_iterations
LoopContinues(i, max) == i < max

\* GovernanceController.generate_transparency_report
generate_transparency_report(trail) ==
    [total_agents_involved |-> Cardinality({ trail[i].agent_name : i \in DOMAIN trail }),
     total_decisions |-> Len(trail),
     safety_checks_performed |-> Len(trail) * 2,
     explainability_provided |-> \A i \in DOMAIN trail : trail[i].reasoning # "",
     accountability_traced |-> Len(trail) > 0]

Started(agent) == [calls EXCEPT !.started[agent] = @ + 1]
Finished(agent) == [calls EXCEPT !.started[agent] = @ + 1, !.returned[agent] = @ + 1]

Checks(agent, r) == [agent |-> agent, input |-> r.input_safety, output |-> r.output_safety]

OrchInit ==
    /\ pc = "generate"
    /\ diff \in Diffs
    /\ reference_message \in References
    /\ max_iterations \in 0..MaxIterBound
    /\ audit_trail = << >>
    /\ current_message = << >>
    /\ iteration = 0
    /\ model_result = Unset
    /\ val_result = Unset
    /\ ref_result = Unset
    /\ safety = Unset
    /\ result = Unset
    /\ calls = [started |-> [a \in Agents |-> 0], returned |-> [a \in Agents |-> 0]]

\* current_message = gen_result["message"]; iteration = 0; while ...
GenerateStep(model, r) ==
    /\ safety' = Checks("GeneratorAgent", r)
    /\ model_result' = IF r.input_safety.passed THEN model ELSE model_result
    /\ IF r.raised
       THEN /\ pc' = "raised"
            /\ calls' = Started("GeneratorAgent")
            /\ UNCHANGED << audit_trail, current_message >>
       ELSE /\ audit_trail' = log_agent_decision(audit_trail, r.decision)
            /\ current_message' = r.output_data.message
            /\ calls' = Finished("GeneratorAgent")
            /\ pc' = IF LoopContinues(iteration, max_iterations) THEN "validate" ELSE "final"

\* gen_result = self.generator.execute(diff)
Generate ==
    /\ pc = "generate"
    /\ OrchUnchanged
    /\ \E model \in ModelResponses : GenerateStep(model, GeneratorResults[diff, model])
    /\ UNCHANGED << diff, reference_message, max_iterations, iteration, val_result,
                    ref_result, result >>

\* a loop that does not break on a valid verdict
AfterVerdict_NoBreak(is_valid) == "refine"

\* a loop that breaks on an invalid verdict and refines a valid one
AfterVerdict_RefinesValid(is_valid) == IF is_valid THEN "refine" ELSE "final"

\* if val_result["is_valid"]: break, else the refiner is next
AfterVerdict(is_valid) == IF is_valid THEN "final" ELSE "refine"

\* if val_result["is_valid"]: break
ValidateStep(r) ==
    /\ safety' = Checks("ValidatorAgent", r)
    /\ IF r.raised
       THEN /\ pc' = "raised"
            /\ calls' = Started("ValidatorAgent")
            /\ UNCHANGED << audit_trail, val_result >>
       ELSE /\ audit_trail' = log_agent_decision(audit_trail, r.decision)
            /\ val_result' = r.output_data
            /\ calls' = Finished("ValidatorAgent")
            /\ pc' = AfterVerdict(r.output_data.is_valid)

\* val_result = self.validator.execute(current_message, diff, reference_message)
Validate ==
    /\ pc = "validate"
    /\ OrchUnchanged
    /\ ValidateStep(ValidatorResults[current_message, diff, reference_message])
    /\ UNCHANGED << diff, reference_message, max_iterations, current_message, iteration,
                    model_result, ref_result, result >>

\* current_message = ref_result["refined_message"]; iteration += 1
RefineStep(r) ==
    /\ safety' = Checks("RefinerAgent", r)
    /\ IF r.raised
       THEN /\ pc' = "raised"
            /\ calls' = Started("RefinerAgent")
            /\ UNCHANGED << audit_trail, ref_result, current_message, iteration >>
       ELSE /\ audit_trail' = log_agent_decision(audit_trail, r.decision)
            /\ ref_result' = r.output_data
            /\ current_message' = r.output_data.refined_message
            /\ iteration' = iteration + 1
            /\ calls' = Finished("RefinerAgent")
            /\ pc' = IF LoopContinues(iteration + 1, max_iterations)
                     THEN "validate" ELSE "final"

\* ref_result = self.refiner.execute(current_message, val_result["feedback"], diff)
Refine ==
    /\ pc = "refine"
    /\ OrchUnchanged
    /\ RefineStep(RefinerResults[current_message, val_result.feedback, diff])
    /\ UNCHANGED << diff, reference_message, max_iterations, model_result, val_result,
                    result >>

\* the MultiAgentResult returned
MultiAgentResult(final_metrics, trail) ==
    [final_message |-> current_message,
     quality_metrics |-> final_metrics.metrics,
     agent_decisions |-> trail,
     governance_summary |->
       [transparency_report |-> generate_transparency_report(trail),
        total_iterations |-> iteration + 1,
        agents_involved |->
          IF iteration > 0
          THEN << "GeneratorAgent", "ValidatorAgent", "RefinerAgent" >>
          ELSE << "GeneratorAgent", "ValidatorAgent" >>]]

FinalStep(r) ==
    /\ safety' = Checks("ValidatorAgent", r)
    /\ IF r.raised
       THEN /\ pc' = "raised"
            /\ calls' = Started("ValidatorAgent")
            /\ UNCHANGED << audit_trail, result >>
       ELSE /\ audit_trail' = log_agent_decision(audit_trail, r.decision)
            /\ calls' = Finished("ValidatorAgent")
            /\ result' = MultiAgentResult(r.output_data,
                                          log_agent_decision(audit_trail, r.decision))
            /\ pc' = "done"

\* final_metrics = self.validator.execute(current_message, diff, reference_message)
FinalValidation ==
    /\ pc = "final"
    /\ OrchUnchanged
    /\ FinalStep(ValidatorResults[current_message, diff, reference_message])
    /\ UNCHANGED << diff, reference_message, max_iterations, current_message, iteration,
                    model_result, val_result, ref_result >>

-----------------------------------------------------------------------------
(* One MultiAgentOrchestrator called again: generate_commit_message_multi_agent *)
(* on an instance whose earlier call has returned or raised. __init__ creates   *)
(* the GovernanceController once, and no call clears its audit_trail.           *)

MaxLaterRuns == 1

\* the requests of the later calls
LaterRequests ==
    { [diff |-> << "total" >>, reference_message |-> << >>],
      [diff |-> << "total", "price", "quantity" >>,
       reference_message |-> << "fix", "total", "price" >>] }

\* what a call that has ended left with its caller: the MultiAgentResult as it was
\* returned (Unset when the call raised), and the length of the controller's
\* audit_trail at that moment
EndedRun == [returned |-> result, decisions |-> Len(audit_trail)]

\* MultiAgentResult(agent_decisions=self.governance.audit_trail): the field is the
\* controller's list itself, not a copy, so reading it later gives the list as it
\* is then
agent_decisions_now(held) == audit_trail

\* the next call on the same instance: new locals, the same self.governance
NextRun ==
    /\ pc \in {"done", "raised"}
    /\ Len(earlier_results) < MaxLaterRuns
    /\ earlier_results' = Append(earlier_results, EndedRun)
    /\ \E request \in LaterRequests :
          /\ diff' = request.diff
          /\ reference_message' = request.reference_message
    /\ pc' = "generate"
    /\ current_message' = << >>
    /\ iteration' = 0
    /\ model_result' = Unset
    /\ val_result' = Unset
    /\ ref_result' = Unset
    /\ safety' = Unset
    /\ result' = Unset
    /\ UNCHANGED << max_iterations, audit_trail, calls, logged, rate_limit_store, now,
                    admitted, rate_result, threads, input, output, audit_logger >>

-----------------------------------------------------------------------------
(* GovernanceController used by a caller of its own: log_agent_decision with *)
(* any AgentDecision, the dataclass being built without any check.           *)

CallerDecisions ==
    { AgentDecision(agent, "custom_action", << >>, << >>, reasoning, NoChecks) :
        agent \in {"GeneratorAgent", "AuditAgent"},
        reasoning \in {"", "Checked manually."} }

GovLog ==
    /\ Len(logged) < MaxTrail
    /\ \E decision \in CallerDecisions :
          /\ audit_trail' = log_agent_decision(audit_trail, decision)
          /\ logged' = Append(logged, decision)
    /\ UNCHANGED << pc, diff, reference_message, max_iterations, current_message, iteration,
                    model_result, val_result, ref_result, safety, result, calls,
                    rate_limit_store, now, admitted, rate_result, threads, input, output,
                 audit_logger, earlier_results >>

-----------------------------------------------------------------------------
(* safety.py: SafetyGuardrails.validate_input and _check_rate_limit, called  *)
(* one after another while the clock advances.                               *)

MAX_DIFF_SIZE_KB == 100
MAX_DIFF_LINES == 1000
RATE_LIMIT_RPM == 60
RATE_WINDOW_SECONDS == 60

\* the clock moves by half a window, MaxTicks times
MaxTicks == 2
TickSeconds == RATE_WINDOW_SECONDS \div 2

Clients == {"unknown"}

\* a line "+a" followed by n line breaks, n + 1 lines
Lines(n) == << "+a" >> \o [i \in 1..n |-> NL]

RequestDiffs ==
    { << >>,
      << NL >>,
      << "total", "price" >>,
      << "-total", "price", NL, "+total", "price", "quantity" >>,
      << "+password=\"hunter2\"" >>,
      << "password=\"hunter2\"" >>,
      << "+bob@example.com" >>,
      << "+", "x*102398" >>,
      << "+", "x*102400" >>,
      << "+password=\"hunter2\"", "x*102400" >>,
      Lines(MAX_DIFF_LINES - 1),
      Lines(MAX_DIFF_LINES) }

\* current_time - t < 60
Recent(current_time, t) == current_time - t < RATE_WINDOW_SECONDS

\* a limit that is compared with > instead of >=
LimitReached_Strict(request_count) == request_count > RATE_LIMIT_RPM

\* request_count >= self.RATE_LIMIT_RPM
LimitReached(request_count) == request_count >= RATE_LIMIT_RPM

\* the timestamp of a rejected request is recorded too
admit_or_reject_RecordsRejected(store, ip_address, current_time, kept) ==
    [is_allowed |-> ~LimitReached(Len(kept)),
     store |-> [store EXCEPT ![ip_address] = Append(kept, current_time)]]

\* the check of the limit on the list kept, and the append
admit_or_reject(store, ip_address, current_time, kept) ==
    IF LimitReached(Len(kept))
    THEN [is_allowed |-> FALSE, store |-> [store EXCEPT ![ip_address] = kept]]
    ELSE [is_allowed |-> TRUE,
          store |-> [store EXCEPT ![ip_address] = Append(kept, current_time)]]

\* _check_rate_limit(ip_address) at current_time: whether the request is
\* allowed, and the store it leaves
check_rate_limit(store, ip_address, current_time) ==
    admit_or_reject(store, ip_address, current_time,
                    SelectSeq(store[ip_address], LAMBDA t : Recent(current_time, t)))

\* len(diff.split('\n'))
LineCount(t) == Cardinality({i \in DOMAIN t : t[i] = NL}) + 1

\* number of the line word i stands on
LineOf(t, i) == Cardinality({j \in 1..(i - 1) : t[j] = NL}) + 1

StartsWith(w, prefix) ==
    /\ w # NL /\ ~IsBlob(w)
    /\ Len(w) >= Len(prefix) /\ SubSeq(w, 1, Len(prefix)) = prefix

\* any(line.startswith(('diff --git', '@@', '---', '+++', '+', '-')) for line in lines[:20])
has_diff_markers(t) ==
    \E i \in DOMAIN t :
        /\ i = 1 \/ t[i - 1] = NL
        /\ LineOf(t, i) <= 20
        /\ \/ StartsWith(t[i], "+") \/ StartsWith(t[i], "-") \/ StartsWith(t[i], "@@")
           \/ /\ t[i] = "diff" /\ i < Len(t) /\ StartsWith(t[i + 1], "--git")

Quotes == {"'", "\""}
Letters == {"a","b","c","d","e","f","g","h","i","j","k","l","m","n","o","p","q","r","s","t",
            "u","v","w","x","y","z"}
DigitChars == {"0","1","2","3","4","5","6","7","8","9"}

\* key\s*=\s*['"][^'"]+['"] found within one word
HasAssignment(w, key) ==
    /\ w # NL /\ ~IsBlob(w)
    /\ \E i \in 1..Len(w) :
          LET q == i + Len(key) + 1
          IN  /\ q + 2 <= Len(w)
              /\ SubSeq(w, i, i + Len(key)) = key \o "="
              /\ SubSeq(w, q, q) \in Quotes
              /\ SubSeq(w, q + 1, q + 1) \notin Quotes
              /\ \E c \in (q + 2)..Len(w) : SubSeq(w, c, c) \in Quotes

\* \b\d{16}\b within one word made of digits
IsCardNumber(w) ==
    /\ w # NL /\ ~IsBlob(w) /\ Len(w) = 16
    /\ \A i \in 1..16 : SubSeq(w, i, i) \in DigitChars

\* name@host.tld within one word
IsEmail(w) ==
    /\ w # NL /\ ~IsBlob(w)
    /\ \E a \in 2..Len(w) : \E d \in (a + 2)..(Len(w) - 2) :
          /\ SubSeq(w, a, a) = "@" /\ SubSeq(w, d, d) = "."
          /\ \A i \in (d + 1)..Len(w) : SubSeq(w, i, i) \in Letters

\* _check_sensitive_data(diff), re.IGNORECASE
check_sensitive_data(t) ==
    \E i \in DOMAIN t :
        LET w == Lower(t[i])
        IN  \/ \E key \in {"password", "api_key", "api-key", "apikey", "secret", "token"} :
                 HasAssignment(w, key)
            \/ IsCardNumber(w)
            \/ IsEmail(w)

\* what validate_input returns, with the store the rate check left behind
Answer(rate, is_valid, message, checks) ==
    [is_valid |-> is_valid, message |-> message, checks_performed |-> checks,
     is_allowed |-> rate.is_allowed, store |-> rate.store]

\* a scan whose match does not reject the diff
validate_content_AcceptsSensitive(d) ==
    IF Split(d) = << >>
    THEN [is_valid |-> FALSE, message |-> "Error: Diff is empty.",
          checks |-> << "empty_check" >>]
    ELSE IF TextLen(d) > MAX_DIFF_SIZE_KB * 1024
    THEN [is_valid |-> FALSE, message |-> "Error: Diff size", checks |-> << "size_limit" >>]
    ELSE IF LineCount(d) > MAX_DIFF_LINES
    THEN [is_valid |-> FALSE, message |-> "Error: Diff has",
          checks |-> << "size_limit", "line_count" >>]
    ELSE IF ~has_diff_markers(d)
    THEN [is_valid |-> FALSE, message |-> "Warning: Input does not appear to be a valid git diff.",
          checks |-> << "size_limit", "line_count", "format_validation" >>]
    ELSE [is_valid |-> TRUE, message |-> "Input validation passed",
          checks |-> << "size_limit", "line_count", "format_validation",
                        "sensitive_data", "all_passed" >>]

\* checks 2 to 6 of validate_input in their order, each with the message it
\* returns and the checks_performed entries appended up to there (the warning
\* sign that opens the message of the sensitive-data scan is left out)
validate_content(d) ==
    IF Split(d) = << >>
    THEN [is_valid |-> FALSE,
          message |-> "Error: Diff is empty. Please provide a valid git diff.",
          checks |-> << "empty_check" >>]
    ELSE IF TextLen(d) > MAX_DIFF_SIZE_KB * 1024
    THEN [is_valid |-> FALSE,
          message |-> "Error: Diff size (" \o Format2f((TextLen(d) * 10000) \div 1024)
                        \o " KB) exceeds maximum allowed size ("
                        \o ToString(MAX_DIFF_SIZE_KB)
                        \o " KB). Please reduce the diff size or split into multiple commits.",
          checks |-> << "size_limit" >>]
    ELSE IF LineCount(d) > MAX_DIFF_LINES
    THEN [is_valid |-> FALSE,
          message |-> "Error: Diff has " \o ToString(LineCount(d))
                        \o " lines, exceeding maximum of " \o ToString(MAX_DIFF_LINES)
                        \o " lines. Consider splitting into smaller commits.",
          checks |-> << "size_limit", "line_count" >>]
    ELSE IF ~has_diff_markers(d)
    THEN [is_valid |-> FALSE,
          message |-> "Warning: Input does not appear to be a valid git diff. "
                        \o "Expected diff markers (@@, +++, ---, +, -) not found. "
                        \o "Results may be inaccurate.",
          checks |-> << "size_limit", "line_count", "format_validation" >>]
    ELSE IF check_sensitive_data(d)
    THEN [is_valid |-> FALSE,
          message |-> "Security Warning: Diff appears to contain sensitive data "
                        \o "(passwords, API keys, tokens, or personal information). "
                        \o "Please remove sensitive data before processing.",
          checks |-> << "size_limit", "line_count", "format_validation",
                        "sensitive_data" >>]
    ELSE [is_valid |-> TRUE, message |-> "Input validation passed",
          checks |-> << "size_limit", "line_count", "format_validation",
                        "sensitive_data", "all_passed" >>]

\* checks 2 to 6 read the diff alone; their outcome for the diffs of the
\* model is computed once
ContentResults == [d \in RequestDiffs |-> validate_content(d)]

\* check 1, then the outcome of checks 2 to 6
validate_after_rate(rate, content) ==
    IF ~rate.is_allowed
    THEN Answer(rate, FALSE,
                "Error: Rate limit exceeded. Maximum " \o ToString(RATE_LIMIT_RPM)
                  \o " requests per minute. Please wait before making more requests.",
                << "rate_limit" >>)
    ELSE Answer(rate, content.is_valid, content.message,
                << "rate_limit" >> \o content.checks)

\* validate_input(diff, ip_address) at current_time
validate_input(store, d, ip_address, current_time) ==
    validate_after_rate(check_rate_limit(store, ip_address, current_time), ContentResults[d])

\* the requests admitted within the 60 seconds that end at current_time
InWindow(current_time, t) == current_time - t < RATE_WINDOW_SECONDS

AdmittedInWindow(history, current_time) ==
    SelectSeq(history, LAMBDA t : InWindow(current_time, t))

RateInit ==
    /\ rate_limit_store = [c \in Clients |-> << >>]
    /\ now = 0
    /\ admitted = [c \in Clients |-> << >>]
    /\ rate_result = Unset

\* is_valid, message, metadata = validate_input(diff, ip_address)
ValidateInputStep(ip_address, d, r) ==
    /\ rate_limit_store' = r.store
    /\ rate_result' = [is_valid |-> r.is_valid, message |-> r.message,
                       checks_performed |-> r.checks_performed,
                       is_allowed |-> r.is_allowed, ip_address |-> ip_address,
                       diff |-> d]
    /\ admitted' = [admitted EXCEPT ![ip_address] =
                       IF r.is_allowed THEN Append(@, now) ELSE @]

ValidateInput ==
    /\ \E ip_address \in Clients, d \in RequestDiffs :
          ValidateInputStep(ip_address, d,
                            validate_input(rate_limit_store, d, ip_address, now))
    /\ UNCHANGED << pc, diff, reference_message, max_iterations, audit_trail, current_message,
                    iteration, model_result, val_result, ref_result, safety, result, calls,
                    logged, now, threads, input, output,
                 audit_logger, earlier_results >>

\* time passes between two requests
Tick ==
    /\ now < MaxTicks * TickSeconds
    /\ now' = now + TickSeconds
    /\ admitted' = [c \in DOMAIN admitted |-> AdmittedInWindow(admitted[c], now + TickSeconds)]
    /\ UNCHANGED << pc, diff, reference_message, max_iterations, audit_trail, current_message,
                    iteration, model_result, val_result, ref_result, safety, result, calls,
                    logged, rate_limit_store, rate_result, threads, input, output,
                 audit_logger, earlier_results >>

-----------------------------------------------------------------------------
(* safety.py: _check_rate_limit entered by several threads on one            *)
(* SafetyGuardrails.  The method takes no lock, so a thread can be suspended *)
(* between any two of its statements; one action per statement.              *)

Threads == {"t1", "t2"}

\* calls of validate_input a thread makes
MaxCallsPerThread == 2

\* a thread that is not inside _check_rate_limit, n calls behind it
ThreadIdle(n) ==
    [pc |-> "idle", ip_address |-> "unknown", current_time |-> 0, kept |-> << >>,
     request_count |-> 0, calls |-> n]

\* the store of an instance that served k requests of a client at time 0
Served(k) == [i \in 1..k |-> 0]

RaceUnchanged ==
    UNCHANGED << pc, diff, reference_message, max_iterations, audit_trail, current_message,
                 iteration, model_result, val_result, ref_result, safety, result, calls,
                 logged, now, input, output,
                 audit_logger, earlier_results >>

\* current_time = time.time()
ReadClock ==
    /\ \E t \in Threads, ip_address \in Clients :
          /\ threads[t].pc = "idle"
          /\ threads[t].calls < MaxCallsPerThread
          /\ threads' = [threads EXCEPT ![t] =
                            [ThreadIdle(threads[t].calls + 1) EXCEPT
                                !.pc = "evict", !.ip_address = ip_address,
                                !.current_time = now]]
    /\ UNCHANGED << rate_limit_store, admitted, rate_result >>
    /\ RaceUnchanged

\* [t for t in self.rate_limit_store[ip_address] if current_time - t < 60]
EvictRead ==
    /\ \E t \in Threads :
          /\ threads[t].pc = "evict"
          /\ threads' = [threads EXCEPT
                            ![t].pc = "assign",
                            ![t].kept =
                                SelectSeq(rate_limit_store[threads[t].ip_address],
                                          LAMBDA x : Recent(threads[t].current_time, x))]
    /\ UNCHANGED << rate_limit_store, admitted, rate_result >>
    /\ RaceUnchanged

\* self.rate_limit_store[ip_address] = <the list built>
EvictAssign ==
    /\ \E t \in Threads :
          /\ threads[t].pc = "assign"
          /\ rate_limit_store' =
                [rate_limit_store EXCEPT ![threads[t].ip_address] = threads[t].kept]
          /\ threads' = [threads EXCEPT ![t].pc = "count"]
    /\ UNCHANGED << admitted, rate_result >>
    /\ RaceUnchanged

\* request_count = len(self.rate_limit_store[ip_address]);
\* if request_count >= self.RATE_LIMIT_RPM: return False, ...
CountRequests ==
    /\ \E t \in Threads :
          LET request_count == Len(rate_limit_store[threads[t].ip_address])
          IN  /\ threads[t].pc = "count"
              /\ IF LimitReached(request_count)
                 THEN /\ threads' = [threads EXCEPT ![t] = ThreadIdle(threads[t].calls)]
                      /\ rate_result' = [is_allowed |-> FALSE,
                                         ip_address |-> threads[t].ip_address]
                 ELSE /\ threads' = [threads EXCEPT ![t].pc = "append",
                                                    ![t].request_count = request_count]
                      /\ UNCHANGED rate_result
    /\ UNCHANGED << rate_limit_store, admitted >>
    /\ RaceUnchanged

\* self.rate_limit_store[ip_address].append(current_time); return True, ...
AppendRequest ==
    /\ \E t \in Threads :
          LET ip_address == threads[t].ip_address
          IN  /\ threads[t].pc = "append"
              /\ rate_limit_store' =
                    [rate_limit_store EXCEPT
                        ![ip_address] = Append(@, threads[t].current_time)]
              /\ admitted' =
                    [admitted EXCEPT
                        ![ip_address] =
                            AdmittedInWindow(Append(@, threads[t].current_time), now)]
              /\ rate_result' = [is_allowed |-> TRUE, ip_address |-> ip_address]
              /\ threads' = [threads EXCEPT ![t] = ThreadIdle(threads[t].calls)]
    /\ RaceUnchanged

-----------------------------------------------------------------------------
(* safety.py: validate_input called for several client identities, one call  *)
(* after the other.                                                          *)

\* the values of the argument ip_address
ClientIdentities == {"unknown", "10.0.0.1"}

\* validate_input(diff, ip_address) called by one of the callers, which make
\* MaxCallsPerThread calls each
ClientCall ==
    /\ \E t \in Threads, ip_address \in ClientIdentities, d \in RequestDiffs :
          /\ threads[t].pc = "idle"
          /\ threads[t].calls < MaxCallsPerThread
          /\ threads' = [threads EXCEPT ![t] = ThreadIdle(threads[t].calls + 1)]
          /\ ValidateInputStep(ip_address, d,
                               validate_input(rate_limit_store, d, ip_address, now))
    /\ UNCHANGED << pc, diff, reference_message, max_iterations, audit_trail, current_message,
                    iteration, model_result, val_result, ref_result, safety, result, calls,
                    logged, now, input, output,
                 audit_logger, earlier_results >>

-----------------------------------------------------------------------------
(* safety.py: generate_safety_warnings, and the classifiers called on their  *)
(* own.  A warning is its text without the sign that opens it.               *)

\* the warnings of generate_safety_warnings, in the order they are appended
generate_safety_warnings(hallucination_severity, hallucination_details, quality_score) ==
    LET tokens == Get(hallucination_details, "ungrounded_tokens", << >>)
    IN  (CASE hallucination_severity = "CRITICAL" ->
                << "CRITICAL: Very high hallucination rate (>35%). "
                     \o "Generated message contains significant ungrounded information. "
                     \o "DO NOT use without thorough manual review." >>
           [] hallucination_severity = "HIGH" ->
                << "HIGH: High hallucination rate (20-35%). "
                     \o "Generated message may contain invented function/variable names. "
                     \o "Manual verification strongly recommended." >>
           [] hallucination_severity = "MEDIUM" ->
                << "MEDIUM: Moderate hallucination detected (10-20%). "
                     \o "Verify all mentioned functions and files exist in the diff." >>
           [] hallucination_severity = "LOW" ->
                << "LOW: Minor hallucination detected (<10%). "
                     \o "Quick review recommended before committing." >>
           [] OTHER -> << >>)
        \o (IF quality_score < 2000
            THEN << "Very low quality score (<0.20). "
                      \o "Generated message may not accurately reflect changes. "
                      \o "Consider regenerating or writing manually." >>
            ELSE IF quality_score < 3500
            THEN << "Low quality score (0.20-0.35). "
                      \o "Review carefully and consider improvements." >>
            ELSE << >>)
        \o (IF Len(tokens) > 0
            THEN << "Ungrounded tokens detected: "
                      \o Join(SubSeq(tokens, 1, Min(5, Len(tokens))), ", ")
                      \o "... (" \o ToString(Len(tokens))
                      \o " total). Verify these appear in your diff." >>
            ELSE << >>)
        \o (IF hallucination_severity \in {"HIGH", "CRITICAL"} \/ quality_score < 2500
            THEN << "HUMAN OVERSIGHT REQUIRED: This message should not be used "
                      \o "without thorough manual review by a developer familiar "
                      \o "with the changes." >>
            ELSE << "Human review recommended: While quality is acceptable, "
                      \o "always verify AI-generated commit messages before pushing." >>)

\* the severity levels, least first
Severities == << "NONE", "LOW", "MEDIUM", "HIGH", "CRITICAL" >>

\* hallucination rates and quality scores in ten-thousandths: the thresholds
\* of the code, their neighbours and values between them
Rates ==
    {0, 500, 999, 1000, 1001, 1500, 1999, 2000, 2001, 2800, 3499, 3500, 3501, 4000, 10000}

QualityScores ==
    {0, 1500, 1999, 2000, 2001, 2499, 2500, 2999, 3000, 3499, 3500, 4499, 4500, 4999,
     5000, 5500, 10000}

HallucinationDetails ==
    { << >>,
      [ungrounded_tokens |-> << >>],
      [ungrounded_tokens |-> << "minor" >>],
      [ungrounded_tokens |-> << "a1", "b2", "c3", "d4", "e5", "f6" >>] }

CallUnchanged ==
    UNCHANGED << pc, diff, reference_message, max_iterations, audit_trail, current_message,
                 iteration, model_result, val_result, ref_result, safety, result, calls,
                 logged, rate_limit_store, now, admitted, rate_result, threads, input,
                 audit_logger, earlier_results >>

\* what a call returned
Returned(function, value) == [function |-> function, value |-> value]

\* safety_guardrails.assess_hallucination_severity(rate, detected)
AssessSeverity ==
    /\ ~IsSet(output)
    /\ output' = Returned("assess_hallucination_severity",
                          assess_hallucination_severity(
                              PyFloat(input.hallucination_rate),
                              PyBool(input.hallucination_detected)))
    /\ CallUnchanged

\* safety_guardrails.get_confidence_level(quality_score, hallucination_severity)
GetConfidenceLevel ==
    /\ ~IsSet(output)
    /\ output' = Returned("get_confidence_level",
                          get_confidence_level(input.quality_score,
                                               input.hallucination_severity))
    /\ CallUnchanged

\* safety_guardrails.generate_safety_warnings(severity, details, quality_score)
GenerateSafetyWarnings ==
    /\ ~IsSet(output)
    /\ output' = Returned("generate_safety_warnings",
                          generate_safety_warnings(input.hallucination_severity,
                                                   input.hallucination_details,
                                                   input.quality_score))
    /\ CallUnchanged

-----------------------------------------------------------------------------
(* evaluate_simple.py and Phase3_Submission/code/api/evaluate.py:            *)
(* detect_hallucination called on its own.                                   *)

\* the most grounded and ungrounded words in a message of the model
MaxGrounded == 17
MaxUngrounded == 3

\* the diff and the message of the scenario of evaluate.py's own test case
ScenarioDiff ==
    << "-total", "+=", "item.price", NL,
       "+total", "+=", "item.price", "*", "item.quantity" >>

ScenarioMessage == << "Fix", "multiplication", "bug", "in", "calculate_total" >>

HallucinationDiffs ==
    { << >>,
      << "total", "price", "quantity" >>,
      ScenarioDiff,
      << "diff", "--git", "a/utils.py", "b/utils.py", NL, "@@", "-10,7", "+10,7", "@@",
         "def", "calculate_total(items):", NL, "+total", "+=", "item.price" >> }

\* messages of some allow-listed, stop or non-alphanumeric words followed by
\* words the diffs ground (by substring) and words they do not
HallucinationMessages ==
    { prefix \o [i \in 1..g |-> IF i % 2 = 1 THEN "total" ELSE "tot"]
             \o [i \in 1..u |-> IF i % 2 = 1 THEN "parser" ELSE "cache"] :
        prefix \in { << >>, << "Fix", "bug" >>, << "in", "calculate_total", "Update" >> },
        g \in 0..MaxGrounded, u \in 0..MaxUngrounded }
      \cup { ScenarioMessage }

\* evaluator.detect_hallucination(message, diff) of evaluate_simple.py
DetectHallucination ==
    /\ ~IsSet(output)
    /\ output' = Returned("detect_hallucination",
                          detect_hallucination(input.message, input.diff))
    /\ CallUnchanged

\* evaluator.detect_hallucination(message, diff) of evaluate.py
DetectHallucinationPhase3 ==
    /\ ~IsSet(output)
    /\ output' = Returned("detect_hallucination_phase3",
                          detect_hallucination_phase3(input.message, input.diff))
    /\ CallUnchanged

\* main.py, generate_commit and check_commit: the severity assessed from the
\* report of the evaluator, the rate being read under the key 'rate'
endpoint_severity(hallucination) ==
    assess_hallucination_severity(PyFloat(Get(hallucination, "rate", 0)),
                                  PyBool(hallucination.detected))

\* what the two endpoints report of the hallucination check, and whether
\* log_hallucination is called with that severity
SeverityReport(hallucination) ==
    [hallucination |-> hallucination,
     hallucination_severity |-> endpoint_severity(hallucination),
     logged |-> hallucination.detected]

\* POST /generateCommit, from the evaluation of the generated message on
GenerateCommit ==
    /\ ~IsSet(output)
    /\ output' = Returned("generate_commit",
                          SeverityReport(detect_hallucination(input.message, input.diff)))
    /\ CallUnchanged

\* POST /checkCommit, from the evaluation of request.commit_message on
CheckCommit ==
    /\ ~IsSet(output)
    /\ output' = Returned("check_commit",
                          SeverityReport(detect_hallucination(input.message, input.diff)))
    /\ CallUnchanged

-----------------------------------------------------------------------------
(* evaluate_simple.py: compute_rouge and compute_bleu called on their own.   *)

\* the longest text of the model, in words
MaxLen == 5

MetricWords == {"total", "price"}

\* the texts of at most MaxLen words, the empty text among them
Texts == UNION { [1..n -> MetricWords] : n \in 0..MaxLen }

\* evaluator.compute_rouge(generated, reference)
ComputeRouge ==
    /\ ~IsSet(output)
    /\ output' = Returned("compute_rouge", compute_rouge(input.generated, input.reference))
    /\ CallUnchanged

\* self._lcs(gen_tokens, ref_tokens)
Lcs ==
    /\ ~IsSet(output)
    /\ output' = Returned("_lcs", lcs(word_tokenize_lower(input.generated),
                                       word_tokenize_lower(input.reference)))
    /\ CallUnchanged

\* evaluator.compute_bleu(generated, reference)
ComputeBleu ==
    /\ ~IsSet(output)
    /\ output' = Returned("compute_bleu", compute_bleu(input.generated, input.reference))
    /\ CallUnchanged

-----------------------------------------------------------------------------
(* safety.py: sanitize_output.  Here a string is kept character by character, *)
(* as the sequence of its runs: Run(c, n) is the character c, n times over,   *)
(* and no two neighbouring runs have the same character.                      *)

Run(c, n) == [char |-> c, count |-> n]

Whitespace == {" ", NL}

\* the backtick and the apostrophe
Backtick == "<backtick>"
Apostrophe == "<apostrophe>"

\* len(s)
StrLen(s) == SumSeq([i \in DOMAIN s |-> s[i].count])

\* the string of a sequence of runs: neighbouring runs of one character are one run
RECURSIVE Canon(_)
Canon(s) ==
    IF Len(s) <= 1 THEN s
    ELSE LET rest == Canon(Tail(s))
         IN  IF s[1].char = rest[1].char
             THEN << Run(s[1].char, s[1].count + rest[1].count) >> \o Tail(rest)
             ELSE << s[1] >> \o rest

RECURSIVE lstrip(_)
lstrip(s) ==
    IF s # << >> /\ s[1].char \in Whitespace THEN lstrip(Tail(s)) ELSE s

RECURSIVE rstrip(_)
rstrip(s) ==
    IF s # << >> /\ s[Len(s)].char \in Whitespace THEN rstrip(SubSeq(s, 1, Len(s) - 1)) ELSE s

\* commit_message.strip()
strip(s) == rstrip(lstrip(s))

\* sanitized.replace(backtick, apostrophe)
replace_backticks(s) ==
    Canon([i \in DOMAIN s |-> IF s[i].char = Backtick THEN Run(Apostrophe, s[i].count) ELSE s[i]])

\* newlines collapsed only from a run of four
collapse_newlines_FromFour(s) ==
    [i \in DOMAIN s |-> IF s[i].char = NL /\ s[i].count >= 4 THEN Run(NL, 2) ELSE s[i]]

\* re.sub(r'\n{3,}', '\n\n', sanitized)
collapse_newlines(s) ==
    [i \in DOMAIN s |-> IF s[i].char = NL /\ s[i].count >= 3 THEN Run(NL, 2) ELSE s[i]]

\* sanitized[:n]
RECURSIVE Slice(_, _)
Slice(s, n) ==
    IF s = << >> \/ n <= 0 THEN << >>
    ELSE IF s[1].count >= n THEN << Run(s[1].char, n) >>
    ELSE << s[1] >> \o Slice(Tail(s), n - s[1].count)

MAX_MESSAGE_LENGTH == 500

\* "... (truncated)"
TruncationMarker ==
    << Run(".", 3), Run(" ", 1), Run("(", 1), Run("t", 1), Run("r", 1), Run("u", 1),
       Run("n", 1), Run("c", 1), Run("a", 1), Run("t", 1), Run("e", 1), Run("d", 1),
       Run(")", 1) >>

\* Limit total length
limit_length(sanitized) ==
    IF StrLen(sanitized) > MAX_MESSAGE_LENGTH
    THEN Canon(Slice(sanitized, MAX_MESSAGE_LENGTH) \o TruncationMarker)
    ELSE sanitized

\* the length limited before the newlines are collapsed
sanitize_output_TruncateFirst(commit_message) ==
    collapse_newlines(limit_length(replace_backticks(strip(commit_message))))

\* SafetyGuardrails.sanitize_output
sanitize_output(commit_message) ==
    limit_length(collapse_newlines(replace_backticks(strip(commit_message))))

\* the most runs of a commit message of the model
MaxRuns == 3

SanitizeChars == {"a", Backtick, " ", NL, "."}

RunLengths == {1, 3, 250, 500}

\* the commit messages of at most MaxRuns runs
CommitMessages ==
    { s \in UNION { [1..n -> [char : SanitizeChars, count : RunLengths]] : n \in 0..MaxRuns } :
        \A i \in 1..(Len(s) - 1) : s[i].char # s[i + 1].char }

\* safety_guardrails.sanitize_output(generated_message)
SanitizeOutput ==
    /\ ~IsSet(output)
    /\ output' = Returned("sanitize_output", sanitize_output(input))
    /\ CallUnchanged

\* sanitize_output called on a message it returned
SanitizeAgain ==
    /\ IsSet(output)
    /\ output.function = "sanitize_output"
    /\ output' = Returned("sanitize_output twice", sanitize_output(output.value))
    /\ CallUnchanged

-----------------------------------------------------------------------------
(* audit_log.py: AuditLogger *)

\* the log types of log_file_map, with the session counter each log call increments
LogTypes == {"api", "hallucination", "safety"}

SessionCounter ==
    [api |-> "total_requests", hallucination |-> "total_hallucinations",
     safety |-> "total_safety_violations"]

\* AuditLogger.__init__ on a fresh log directory: no log file exists (read as no
\* line), the counters are 0
NewAuditLogger ==
    [files |-> [t \in LogTypes |-> << >>],
     session_stats |-> [total_requests |-> 0, total_hallucinations |-> 0,
                        total_safety_violations |-> 0]]

\* the number of lines written to the three files, standing for datetime.now()
Written(logger) ==
    Len(logger.files["api"]) + Len(logger.files["hallucination"]) + Len(logger.files["safety"])

\* with open(log_file, 'a') as f: f.write(json.dumps(entry) + '\n')
write_log(logger, log_type, entry) ==
    [logger EXCEPT !.files[log_type] = Append(@, entry)]

\* self._write_log(file, log_entry); self.session_stats[counter] += 1
log_entry(logger, log_type, entry) ==
    [write_log(logger, log_type, entry) EXCEPT !.session_stats[SessionCounter[log_type]] = @ + 1]

\* the last count elements of a list, newest first: s[len(s) - count:][::-1]
LastReversed(s, count) ==
    [i \in 1..count |-> s[Len(s) + 1 - i]]

\* logs[-limit:] of Python: -0 is 0, so logs[-0:] is the whole list
SliceFromMinus(logs, limit) ==
    IF limit = 0 THEN Len(logs)
    ELSE IF limit > Len(logs) THEN Len(logs) ELSE limit

\* get_recent_logs: an unknown type has no file and gives []; every line written by
\* _write_log parses
get_recent_logs(logger, log_type, limit) ==
    IF log_type \notin LogTypes THEN << >>
    ELSE LastReversed(logger.files[log_type], SliceFromMinus(logger.files[log_type], limit))

MaxLogged == 3

Endpoints == {"/generateCommit", "/checkCommit"}
LoggedSeverities == {"LOW", "HIGH"}
ViolationTypes == {"rate_limit", "sensitive_data"}
QueriedTypes == LogTypes \cup {"metrics"}

AuditUnchanged ==
    UNCHANGED << pc, diff, reference_message, max_iterations, audit_trail, current_message,
                 iteration, model_result, val_result, ref_result, safety, result, calls,
                 logged, rate_limit_store, now, admitted, rate_result, threads,
                 earlier_results >>

LogCall(function, log_type, entry) ==
    /\ Written(audit_logger) < MaxLogged
    /\ input' = [function |-> function, entry |-> entry]
    /\ audit_logger' = log_entry(audit_logger, log_type, entry)
    /\ output' = Returned(function, "None")
    /\ AuditUnchanged

LogApiCall ==
    \E endpoint \in Endpoints :
        LogCall("log_api_call", "api",
                [timestamp |-> Written(audit_logger), endpoint |-> endpoint])

LogHallucination ==
    \E severity \in LoggedSeverities :
        LogCall("log_hallucination", "hallucination",
                [timestamp |-> Written(audit_logger), severity |-> severity])

LogSafetyViolation ==
    \E violation_type \in ViolationTypes :
        LogCall("log_safety_violation", "safety",
                [timestamp |-> Written(audit_logger), violation_type |-> violation_type])

GetRecentLogs ==
    \E log_type \in QueriedTypes, limit \in 0..(MaxLogged + 1) :
        /\ input' = [function |-> "get_recent_logs", log_type |-> log_type, limit |-> limit]
        /\ output' = Returned("get_recent_logs", get_recent_logs(audit_logger, log_type, limit))
        /\ UNCHANGED audit_logger
        /\ AuditUnchanged

-----------------------------------------------------------------------------
(* The specifications *)

\* no thread is inside _check_rate_limit and no function has been called
NoCalls ==
    /\ threads = [t \in Threads |-> ThreadIdle(0)]
    /\ input = Unset
    /\ output = Unset
    /\ audit_logger = NewAuditLogger
    /\ earlier_results = << >>

Init == OrchInit /\ logged = << >> /\ RateInit /\ NoCalls

Next ==
    \/ Generate
    \/ Validate
    \/ Refine
    \/ FinalValidation

\* one request served by a new orchestrator
Spec == Init /\ [][Next]_vars

\* the request's thread runs each step it has reached
FairSpec == Spec /\ WF_vars(Next)

\* the orchestrator's runs, one after another on the same instance
ReuseNext ==
    \/ Next
    \/ NextRun

SpecReuse == Init /\ [][ReuseNext]_vars

IdleOrch ==
    /\ pc = "idle"
    /\ diff = << >>
    /\ reference_message = << >>
    /\ max_iterations = 0
    /\ audit_trail = << >>
    /\ current_message = << >>
    /\ iteration = 0
    /\ model_result = Unset
    /\ val_result = Unset
    /\ ref_result = Unset
    /\ safety = Unset
    /\ result = Unset
    /\ calls = [started |-> [a \in Agents |-> 0], returned |-> [a \in Agents |-> 0]]

\* a GovernanceController and a SafetyGuardrails just constructed
IdleInit == IdleOrch /\ logged = << >> /\ RateInit /\ NoCalls

\* a GovernanceController driven by a caller of log_agent_decision
SpecGov == IdleInit /\ [][GovLog]_vars

\* a SafetyGuardrails instance serving validate_input calls
SpecRate == IdleInit /\ [][ValidateInput \/ Tick]_vars

\* an instance that has served none or all but one of the requests the limit
\* allows, as two threads start calling validate_input
RaceInit ==
    /\ IdleOrch /\ logged = << >> /\ NoCalls
    /\ now = 0
    /\ rate_result = Unset
    /\ \E k \in {0, RATE_LIMIT_RPM - 1} :
          /\ rate_limit_store = [c \in Clients |-> Served(k)]
          /\ admitted = [c \in Clients |-> Served(k)]

RaceNext ==
    \/ ReadClock
    \/ EvictRead
    \/ EvictAssign
    \/ CountRequests
    \/ AppendRequest
    \/ Tick

SpecRace == RaceInit /\ [][RaceNext]_vars

\* nothing is running but one call of a function, with its arguments
CallInit(inputs) ==
    /\ IdleOrch /\ logged = << >> /\ RateInit
    /\ threads = [t \in Threads |-> ThreadIdle(0)]
    /\ input \in inputs
    /\ output = Unset
    /\ audit_logger = NewAuditLogger
    /\ earlier_results = << >>

SafetyInit ==
    CallInit([hallucination_rate : Rates, hallucination_detected : BOOLEAN,
              quality_score : QualityScores, hallucination_severity : Range(Severities),
              hallucination_details : HallucinationDetails])

SafetyNext ==
    \/ AssessSeverity
    \/ GetConfidenceLevel
    \/ GenerateSafetyWarnings

\* one call of a classifier or of the warning generator
SpecSafety == SafetyInit /\ [][SafetyNext]_vars

HallucinationInit == CallInit([message : HallucinationMessages, diff : HallucinationDiffs])

HallucinationNext ==
    \/ DetectHallucination
    \/ DetectHallucinationPhase3
    \/ GenerateCommit
    \/ CheckCommit

\* an instance that has served, for each client identity, none or all but
\* one of the requests the limit allows
ClientsInit ==
    /\ IdleOrch /\ logged = << >> /\ NoCalls
    /\ now = 0
    /\ rate_result = Unset
    /\ \E k \in [ClientIdentities -> {0, RATE_LIMIT_RPM - 1}] :
          /\ rate_limit_store = [c \in ClientIdentities |-> Served(k[c])]
          /\ admitted = [c \in ClientIdentities |-> Served(k[c])]

ClientsNext ==
    \/ ClientCall
    \/ Tick

\* a SafetyGuardrails instance serving the calls of two client identities
SpecClients == ClientsInit /\ [][ClientsNext]_vars

\* one call of detect_hallucination, of either evaluator
SpecHallucination == HallucinationInit /\ [][HallucinationNext]_vars

MetricsInit == CallInit([generated : Texts, reference : Texts])

MetricsNext ==
    \/ ComputeRouge
    \/ ComputeBleu
    \/ Lcs

\* one call of compute_rouge or compute_bleu
SpecMetrics == MetricsInit /\ [][MetricsNext]_vars

SanitizeInit == CallInit(CommitMessages)

SanitizeNext ==
    \/ SanitizeOutput
    \/ SanitizeAgain

\* sanitize_output called on a commit message and then on its own result
SpecSanitize == SanitizeInit /\ [][SanitizeNext]_vars

AuditInit ==
    /\ IdleOrch /\ logged = << >> /\ RateInit /\ NoCalls

AuditNext ==
    \/ LogApiCall
    \/ LogHallucination
    \/ LogSafetyViolation
    \/ GetRecentLogs

SpecAudit == AuditInit /\ [][AuditNext]_vars

-----------------------------------------------------------------------------
(* The claims *)

Started_(agent) == calls.started[agent]
Returned_(agent) == calls.returned[agent]
StepsReturned ==
    Returned_("GeneratorAgent") + Returned_("ValidatorAgent") + Returned_("RefinerAgent")

\* C1: a run always comes to its end (it returns, or a step raised), and at
\* no point has it called the validator more than max_iterations + 1 times.
C1_TerminatesWithinBudget ==
    /\ [](Started_("ValidatorAgent") <= max_iterations + 1)
    /\ <>(pc \in {"done", "raised"})

\* C1, its case: a run that used the whole budget of MaxIterBound passes and returned
C1_Witness ==
    /\ pc = "done"
    /\ max_iterations = MaxIterBound
    /\ Started_("ValidatorAgent") = max_iterations + 1

\* C2: when a run has returned, the trail holds at least two decisions, the
\* first made by GeneratorAgent and the second by ValidatorAgent.
C2_TrailStartsGeneratorValidator ==
    pc = "done" =>
        /\ Len(audit_trail) >= 2
        /\ audit_trail[1].agent_name = "GeneratorAgent"
        /\ audit_trail[2].agent_name = "ValidatorAgent"

\* C2, its case: a run with max_iterations = 0 that returned, the shortest trail
C2_Witness ==
    /\ pc = "done"
    /\ max_iterations = 0
    /\ Len(audit_trail) = 2

\* the last validation made in the loop returned is_valid = true
ValidVerdictSeen == IsSet(val_result) /\ val_result.is_valid

\* C3 as stated: once a validation of the loop has returned is_valid = true,
\* no further agent step is run: the steps started are the generator's, one
\* refinement per pass and one validation more than passes, and the trail
\* ends with the decision of that validation.
C3_ValidVerdictIsLastStep ==
    ValidVerdictSeen =>
        /\ Started_("RefinerAgent") = iteration
        /\ Started_("ValidatorAgent") = iteration + 1
        /\ Len(audit_trail) = 2 * iteration + 2

\* C3 amended: once a validation of the loop has returned is_valid = true, no
\* refiner step is run any more and no step raises; exactly one more
\* validator step, the final validation of the same message, is run, it
\* returns the same verdict and metrics, and its decision is the last entry
\* of the trail, right after the decision of the validation that broke the loop.
C3_ValidVerdictThenFinalValidation ==
    ValidVerdictSeen =>
        /\ pc \in {"final", "done"}
        /\ Started_("RefinerAgent") = iteration
        /\ Started_("ValidatorAgent") = iteration + (IF pc = "done" THEN 2 ELSE 1)
        /\ pc = "done" =>
              /\ Len(audit_trail) = 2 * iteration + 3
              /\ \A i \in {Len(audit_trail) - 1, Len(audit_trail)} :
                    /\ audit_trail[i].agent_name = "ValidatorAgent"
                    /\ audit_trail[i].output_data.is_valid
              /\ result.quality_metrics = val_result.metrics
              /\ result.final_message = current_message

\* C3, its case: a run whose validation in the loop was valid and that returned
C3_Witness ==
    /\ pc = "done"
    /\ ValidVerdictSeen
    /\ reference_message # << >>

\* every validation that returned so far returned is_valid = false
AllInvalid ==
    \A i \in DOMAIN audit_trail :
        audit_trail[i].agent_name = "ValidatorAgent" => ~audit_trail[i].output_data.is_valid

\* C4: the refiner never raises, and a run that returned with every verdict
\* invalid has run exactly max_iterations refinements, returns the last
\* refinement's message (the generator's when max_iterations = 0) and the
\* metrics of a validation of exactly that message.
C4_ExhaustionReturnsLastMessage ==
    /\ pc = "raised" => safety.agent # "RefinerAgent"
    /\ (pc = "done" /\ AllInvalid) =>
          /\ Returned_("RefinerAgent") = max_iterations
          /\ result.final_message =
                IF max_iterations = 0 THEN GeneratedMessage(model_result)
                ELSE ref_result.refined_message
          /\ result.quality_metrics =
                ValidatorMetrics(result.final_message, diff, reference_message)

\* C4, its case: MaxIterBound passes, every verdict invalid, and the run returned
C4_Witness ==
    /\ pc = "done"
    /\ AllInvalid
    /\ max_iterations = MaxIterBound
    /\ Returned_("RefinerAgent") = MaxIterBound

\* C5: a step in which an execute returns appends one decision, made by
\* that agent, after the entries there were, which stay as they are; any
\* other step leaves the trail alone; the trail is as long as the number of
\* executes that returned.
C5_StepAppendsOneDecision ==
    [][/\ Len(audit_trail') =
            calls'.returned["GeneratorAgent"] + calls'.returned["ValidatorAgent"]
              + calls'.returned["RefinerAgent"]
       /\ IF calls'.returned # calls.returned
          THEN /\ Len(audit_trail') = Len(audit_trail) + 1
               /\ SubSeq(audit_trail', 1, Len(audit_trail)) = audit_trail
               /\ LET agent == audit_trail'[Len(audit_trail')].agent_name
                  IN  calls'.returned = [calls.returned EXCEPT ![agent] = @ + 1]
          ELSE audit_trail' = audit_trail]_vars

\* C5, its case: the longest run, eight executes returned and eight decisions
C5_Witness ==
    /\ pc = "done"
    /\ StepsReturned = 2 * MaxIterBound + 2
    /\ Len(audit_trail) = 2 * MaxIterBound + 2

\* C6: every decision in the trail of a run carries a reasoning that is not
\* the empty string.
C6_ReasoningNeverEmpty ==
    \A i \in DOMAIN audit_trail : audit_trail[i].reasoning # ""

\* C6, its case: a trail with a failed validation and a refinement that
\* changed nothing
C6_Witness ==
    /\ \E i \in DOMAIN audit_trail :
          /\ audit_trail[i].agent_name = "RefinerAgent"
          /\ audit_trail[i].output_data.changes_count = 0
    /\ \E i \in DOMAIN audit_trail :
          /\ audit_trail[i].agent_name = "ValidatorAgent"
          /\ ~audit_trail[i].output_data.is_valid

\* C7 as stated: a decision whose reasoning is the empty string, handed to
\* log_agent_decision by any caller, is not in the trail.
C7_EmptyReasoningIsNotLogged ==
    \A i \in DOMAIN logged :
        logged[i].reasoning = "" => \A j \in DOMAIN audit_trail : audit_trail[j] # logged[i]

\* C8: a step is taken only while no step has raised; when the input check
\* or the output check of the step's agent did not pass, the run raises and
\* the trail and the count of returned executes are as before the step; a
\* run raises for no other reason.
C8_FailedCheckRaisesAndLogsNothing ==
    [][/\ pc # "raised"
       /\ (pc' = "raised") <=> (~safety'.input.passed \/ ~safety'.output.passed)
       /\ (pc' = "raised") =>
             /\ audit_trail' = audit_trail
             /\ calls'.returned = calls.returned]_vars

\* C8, its case: the validator's output check failed after the generator's
\* decision had been logged
C8_Witness ==
    /\ pc = "raised"
    /\ safety.agent = "ValidatorAgent"
    /\ safety.input.passed /\ ~safety.output.passed
    /\ Len(audit_trail) = 1

\* C9 as stated: after the model service answered success = false, no
\* validator step and no refiner step is started and no result is returned.
C9_GenerationFailureIsTerminal ==
    (IsSet(model_result) /\ ~model_result.success) =>
        /\ Started_("ValidatorAgent") = 0
        /\ Started_("RefinerAgent") = 0
        /\ ~IsSet(result)

\* C10: for each client, the requests admitted within the 60 seconds that
\* end now (any timestamps less than 60 seconds apart) are at most
\* RATE_LIMIT_RPM; the entries kept for the client are at most that many,
\* none is later than now, and those less than 60 seconds old are exactly
\* the requests admitted in that time.
C10_AdmittedWithinWindowAtMostCap ==
    \A c \in Clients :
        /\ Len(AdmittedInWindow(admitted[c], now)) <= RATE_LIMIT_RPM
        /\ Len(rate_limit_store[c]) <= RATE_LIMIT_RPM
        /\ \A i \in DOMAIN rate_limit_store[c] : rate_limit_store[c][i] <= now
        /\ SelectSeq(rate_limit_store[c], LAMBDA t : now - t < RATE_WINDOW_SECONDS)
             = AdmittedInWindow(admitted[c], now)

\* C10, its case: the entries of the first minute were evicted, sixty
\* requests were admitted again and the next one was rejected
C10_Witness ==
    /\ now = RATE_WINDOW_SECONDS
    /\ IsSet(rate_result) /\ ~rate_result.is_allowed
    /\ \A c \in Clients :
          /\ Len(admitted[c]) = RATE_LIMIT_RPM
          /\ \A i \in DOMAIN rate_limit_store[c] : rate_limit_store[c][i] = now

\* C11 as stated: with threads calling validate_input for one client at the
\* same time, every admitted request that is less than 60 seconds old still
\* has its timestamp in the client's entries (as often as it was admitted),
\* and the requests admitted within 60 seconds are at most RATE_LIMIT_RPM.
C11_RateLimitAtomicPerClient ==
    \A c \in Clients :
        LET window == AdmittedInWindow(admitted[c], now)
            times(seq, x) == Cardinality({i \in DOMAIN seq : seq[i] = x})
        IN  /\ \A i \in DOMAIN window :
                  times(rate_limit_store[c], window[i]) >= times(window, window[i])
            /\ Len(window) <= RATE_LIMIT_RPM

\* the six checks of validate_input in the order of C12: whether check k
\* fails on the last request, and how its message begins
CheckFails(k) ==
    LET d == rate_result.diff
    IN  CASE k = 1 -> ~rate_result.is_allowed
          [] k = 2 -> \A i \in DOMAIN d : d[i] = NL
          [] k = 3 -> TextLen(d) > 100 * 1024
          [] k = 4 -> LineCount(d) > 1000
          [] k = 5 -> ~has_diff_markers(d)
          [] k = 6 -> check_sensitive_data(d)

CheckMessage ==
    << "Error: Rate limit exceeded", "Error: Diff is empty", "Error: Diff size (",
       "Error: Diff has ", "Warning: Input does not appear to be a valid git diff",
       "Security Warning: Diff appears to contain sensitive data" >>

CheckName ==
    << "rate_limit", "empty_check", "size_limit", "line_count", "format_validation",
       "sensitive_data" >>

\* C12: validate_input returns valid exactly when none of the six checks
\* (rate limit, empty, size, lines, diff markers, sensitive data) fails; when
\* one fails it returns invalid with the message of the first that fails in
\* that order and checks_performed names no later check; a diff matching a
\* sensitive pattern is never returned valid.
C12_ChecksInOrderFirstFailureWins ==
    IsSet(rate_result) =>
        /\ rate_result.is_valid <=> \A k \in 1..6 : ~CheckFails(k)
        /\ rate_result.is_valid => rate_result.message = "Input validation passed"
        /\ \A k \in 1..6 :
              (CheckFails(k) /\ \A j \in 1..(k - 1) : ~CheckFails(j)) =>
                  /\ ~rate_result.is_valid
                  /\ SubSeq(rate_result.message, 1, Len(CheckMessage[k])) = CheckMessage[k]
                  /\ \A j \in (k + 1)..6 :
                        CheckName[j] \notin Range(rate_result.checks_performed)
        /\ check_sensitive_data(rate_result.diff) => ~rate_result.is_valid

\* C12, its case: a diff that is over the size limit and holds a password
\* assignment was rejected with the message of the size check, and the
\* sensitive-data scan was not performed
C12_Witness ==
    /\ IsSet(rate_result)
    /\ CheckFails(3) /\ CheckFails(6)
    /\ ~rate_result.is_valid
    /\ SubSeq(rate_result.message, 1, 18) = "Error: Diff size ("
    /\ rate_result.checks_performed = << "rate_limit", "size_limit" >>

\* the place of a level in an ordered list of levels
RankIn(levels, level) == CHOOSE i \in DOMAIN levels : levels[i] = level

ConfidenceLevels == << "VERY_LOW", "LOW", "MEDIUM", "HIGH" >>

\* C13: assess_hallucination_severity returns NONE when detected is false,
\* and otherwise LOW below 0.10, MEDIUM from 0.10 to below 0.20, HIGH from
\* 0.20 to below 0.35 and CRITICAL from 0.35; with detected true no smaller
\* rate is given a higher severity.
C13_SeverityBandsMonotonic ==
    (IsSet(output) /\ output.function = "assess_hallucination_severity") =>
        LET rate == input.hallucination_rate
            severity == output.value
        IN  IF ~input.hallucination_detected THEN severity = "NONE"
            ELSE /\ severity = "LOW" <=> rate < 1000
                 /\ severity = "MEDIUM" <=> (1000 <= rate /\ rate < 2000)
                 /\ severity = "HIGH" <=> (2000 <= rate /\ rate < 3500)
                 /\ severity = "CRITICAL" <=> rate >= 3500
                 /\ \A smaller \in Rates :
                       smaller <= rate =>
                           RankIn(Severities,
                                  assess_hallucination_severity(PyFloat(smaller),
                                                                PyBool(TRUE)))
                             <= RankIn(Severities, severity)

\* C13, its case: a detected hallucination at exactly the rate 0.35 was
\* assessed, as CRITICAL
C13_Witness ==
    /\ IsSet(output) /\ output.function = "assess_hallucination_severity"
    /\ input.hallucination_detected
    /\ input.hallucination_rate = 3500
    /\ output.value = "CRITICAL"

\* C14: get_confidence_level follows the table: CRITICAL gives VERY_LOW;
\* HIGH gives VERY_LOW below 0.30 and LOW otherwise; MEDIUM gives MEDIUM from
\* 0.45, LOW from 0.30 and VERY_LOW below; NONE and LOW give HIGH from 0.50,
\* MEDIUM from 0.35, LOW from 0.20 and VERY_LOW below; and for the same
\* quality no higher severity is given a higher confidence.
C14_ConfidenceTableSeverityGates ==
    (IsSet(output) /\ output.function = "get_confidence_level") =>
        LET quality == input.quality_score
            severity == input.hallucination_severity
            confidence == output.value
        IN  /\ severity = "CRITICAL" => confidence = "VERY_LOW"
            /\ severity = "HIGH" =>
                  confidence = IF quality < 3000 THEN "VERY_LOW" ELSE "LOW"
            /\ severity = "MEDIUM" =>
                  confidence = IF quality >= 4500 THEN "MEDIUM"
                               ELSE IF quality >= 3000 THEN "LOW" ELSE "VERY_LOW"
            /\ severity \in {"NONE", "LOW"} =>
                  confidence = IF quality >= 5000 THEN "HIGH"
                               ELSE IF quality >= 3500 THEN "MEDIUM"
                               ELSE IF quality >= 2000 THEN "LOW" ELSE "VERY_LOW"
            /\ \A worse \in Range(Severities) :
                  RankIn(Severities, worse) >= RankIn(Severities, severity) =>
                      RankIn(ConfidenceLevels, get_confidence_level(quality, worse))
                        <= RankIn(ConfidenceLevels, confidence)

\* C14, its case: the confidence of a quality of 0.45 under MEDIUM severity
\* was asked for, a quality that gives HIGH severity only LOW
C14_Witness ==
    /\ IsSet(output) /\ output.function = "get_confidence_level"
    /\ input.hallucination_severity = "MEDIUM"
    /\ input.quality_score = 4500
    /\ output.value = "MEDIUM"

OversightDirective ==
    "HUMAN OVERSIGHT REQUIRED: This message should not be used "
      \o "without thorough manual review by a developer familiar with the changes."

ReviewDirective ==
    "Human review recommended: While quality is acceptable, "
      \o "always verify AI-generated commit messages before pushing."

\* C15 as stated: the list generate_safety_warnings returns holds the
\* directive HUMAN OVERSIGHT REQUIRED when the severity is MEDIUM, HIGH or
\* CRITICAL or the quality is below 0.25, holds the directive Human review
\* recommended otherwise, and never holds both or neither.
C15_OversightFromMedium ==
    (IsSet(output) /\ output.function = "generate_safety_warnings") =>
        LET oversight == \/ input.hallucination_severity \in {"MEDIUM", "HIGH", "CRITICAL"}
                         \/ input.quality_score < 2500
            warnings == Range(output.value)
        IN  /\ OversightDirective \in warnings <=> oversight
            /\ ReviewDirective \in warnings <=> ~oversight

\* a report of detect_hallucination has been returned
ReportReturned ==
    IsSet(output) /\ output.function \in {"detect_hallucination", "detect_hallucination_phase3"}

\* the meaningful tokens of the message that are not in the allow-list, and
\* those of them that are a substring of no token of the diff
CheckedTokens ==
    SelectSeq(extract_meaningful_tokens(input.message),
              LAMBDA token : Lower(token) \notin allowed_technical_terms)

UngroundedTokens ==
    SelectSeq(CheckedTokens,
              LAMBDA token : \A diff_token \in Range(extract_diff_tokens(input.diff)) :
                                 ~Contains(Lower(diff_token), Lower(token)))

\* the threshold of the evaluator that returned the report, in ten-thousandths
ThresholdUsed == IF output.function = "detect_hallucination" THEN 1000 ELSE 1500

\* C16 as stated: total_tokens_checked counts the meaningful tokens not in
\* the allow-list, ungrounded_tokens are those of them no diff token contains,
\* the rate is exactly len(ungrounded_tokens) / total_tokens_checked (0 when
\* nothing was checked, and then detected is false), and detected is
\* rate > threshold.
C16_RateIsExactRatio ==
    ReportReturned =>
        LET report == output.value
            checked == report.total_tokens_checked
            ungrounded == Len(report.ungrounded_tokens)
        IN  /\ checked = Len(CheckedTokens)
            /\ report.ungrounded_tokens = UngroundedTokens
            /\ checked > 0 => report.hallucination_rate * checked = 10000 * ungrounded
            /\ checked = 0 => report.hallucination_rate = 0 /\ ~report.detected
            /\ report.detected <=> report.hallucination_rate > ThresholdUsed

\* C16 amended: the counts and the list are as stated; the rate reported is
\* len(ungrounded_tokens) / total_tokens_checked rounded to four decimals (0
\* when nothing was checked, and then detected is false), and detected is
\* decided on the ratio before it is rounded: ratio > threshold.
C16_RateIsRoundedRatio ==
    ReportReturned =>
        LET report == output.value
            checked == report.total_tokens_checked
            ungrounded == Len(report.ungrounded_tokens)
            error == report.hallucination_rate * checked - 10000 * ungrounded
        IN  /\ checked = Len(CheckedTokens)
            /\ report.ungrounded_tokens = UngroundedTokens
            /\ checked > 0 => (2 * error <= checked /\ -2 * error <= checked)
            /\ checked = 0 => report.hallucination_rate = 0 /\ ~report.detected
            /\ report.detected <=> 10000 * ungrounded > ThresholdUsed * checked

\* C16, its case: a message with three checked tokens, one of them
\* ungrounded, was reported with the rate 0.3333 and detected
C16_Witness ==
    /\ ReportReturned
    /\ output.value.total_tokens_checked = 3
    /\ Len(output.value.ungrounded_tokens) = 1
    /\ output.value.hallucination_rate = 3333
    /\ output.value.detected

\* C17 as stated: for the diff '-total += item.price' / '+total += item.price
\* * item.quantity' and the message 'Fix multiplication bug in
\* calculate_total', no ungrounded token is found and detected is false.
C17_ScenarioNotDetected ==
    (ReportReturned /\ input.message = ScenarioMessage /\ input.diff = ScenarioDiff) =>
        /\ ~output.value.detected
        /\ output.value.ungrounded_tokens = << >>

\* the n-grams of the candidate and of the reference of the call
CandidateGrams(n) == get_ngrams(word_tokenize_lower(input.generated), n)
ReferenceGrams(n) == get_ngrams(word_tokenize_lower(input.reference), n)

\* C18 as stated: compute_rouge of a text of one token or more against
\* itself returns 100.0 for rouge1, rouge2 and rougeL.
C18_SelfRougeIs100 ==
    (/\ IsSet(output) /\ output.function = "compute_rouge"
     /\ input.generated = input.reference
     /\ Len(CandidateGrams(1)) >= 1) =>
        /\ output.value.rouge1 = 10000
        /\ output.value.rouge2 = 10000
        /\ output.value.rougeL = 10000

\* C18 amended: compute_rouge of a text against itself returns 100.0 for
\* rouge1 and rougeL when the text has one token or more; it returns 100.0
\* for rouge2 when the text has two tokens or more, and 0.0 for rouge2 when
\* it has exactly one token (there is no bigram).
C18_SelfRougeIs100FromTwoTokens ==
    (/\ IsSet(output) /\ output.function = "compute_rouge"
     /\ input.generated = input.reference
     /\ Len(CandidateGrams(1)) >= 1) =>
        /\ output.value.rouge1 = 10000
        /\ output.value.rougeL = 10000
        /\ output.value.rouge2 = IF Len(CandidateGrams(1)) >= 2 THEN 10000 ELSE 0

\* C18, its case: a text of three tokens, one of them twice, was compared
\* with itself
C18_Witness ==
    /\ IsSet(output) /\ output.function = "compute_rouge"
    /\ input.generated = input.reference
    /\ input.generated = << "total", "price", "total" >>
    /\ output.value.rouge2 = 10000

\* C19: compute_bleu and compute_rouge return values from 0 to 100 for every
\* candidate and reference, the empty ones too; for n = 1..4 the clipped
\* matches are no more than the n-grams of the candidate nor of the reference
\* and the LCS is no longer than the reference; BLEU is 0 for an empty
\* candidate and when one of the four precisions is 0; a ROUGE score is 0
\* when the reference has no n-gram of its order.
C19_ScoresWithinRange ==
    IsSet(output) =>
        /\ \A n \in 1..4 :
              /\ ClippedMatches(CandidateGrams(n), ReferenceGrams(n)) <= Len(CandidateGrams(n))
              /\ ClippedMatches(CandidateGrams(n), ReferenceGrams(n)) <= Len(ReferenceGrams(n))
        /\ lcs(CandidateGrams(1), ReferenceGrams(1)) <= Len(ReferenceGrams(1))
        /\ output.function = "compute_bleu" =>
              /\ output.value \in 0..10000
              /\ Len(CandidateGrams(1)) = 0 => output.value = 0
              /\ (\E n \in 1..4 : ClippedMatches(CandidateGrams(n), ReferenceGrams(n)) = 0)
                    => output.value = 0
        /\ output.function = "compute_rouge" =>
              /\ output.value.rouge1 \in 0..10000
              /\ output.value.rouge2 \in 0..10000
              /\ output.value.rougeL \in 0..10000
              /\ Len(ReferenceGrams(1)) = 0 =>
                    output.value.rouge1 = 0 /\ output.value.rougeL = 0
              /\ Len(ReferenceGrams(2)) = 0 => output.value.rouge2 = 0

\* C19, its case: a BLEU score strictly between 0 and 100 was returned for a
\* candidate shorter than its reference
C19_Witness ==
    /\ IsSet(output) /\ output.function = "compute_bleu"
    /\ Len(input.generated) < Len(input.reference)
    /\ output.value > 0 /\ output.value < 10000

\* C20: sanitize_output is idempotent: sanitizing a sanitized message returns
\* it unchanged, also when the message was longer than 500 characters and got
\* the truncation marker on the first pass.
C20_SanitizeIdempotent ==
    (IsSet(output) /\ output.function = "sanitize_output twice") =>
        output.value = sanitize_output(input)

\* C20, its case: a message that is still longer than 500 characters after
\* its newlines are collapsed was sanitized twice, and carries the marker
C20_Witness ==
    /\ IsSet(output) /\ output.function = "sanitize_output twice"
    /\ StrLen(collapse_newlines(replace_backticks(strip(input)))) > MAX_MESSAGE_LENGTH
    /\ \E i \in DOMAIN input : input[i].char = NL /\ input[i].count >= 3
    /\ StrLen(output.value) = MAX_MESSAGE_LENGTH + StrLen(TruncationMarker)

\* the text of the call stripped, its backticks replaced, its newlines collapsed
CleanedInput == collapse_newlines(replace_backticks(strip(input)))

\* C21: sanitize_output returns a string without a backtick and without a run
\* of three or more newlines; when the cleaned text is longer than 500
\* characters the result is its first 500 characters followed by the marker
\* "... (truncated)", otherwise it is the cleaned text; the result is never
\* longer than 500 characters plus the marker.
C21_SanitizedShape ==
    (IsSet(output) /\ output.function = "sanitize_output") =>
        /\ \A i \in DOMAIN output.value :
              /\ output.value[i].char # Backtick
              /\ ~(output.value[i].char = NL /\ output.value[i].count >= 3)
        /\ \A i \in 1..(Len(output.value) - 1) :
              output.value[i].char # output.value[i + 1].char
        /\ StrLen(CleanedInput) > MAX_MESSAGE_LENGTH =>
              /\ Slice(output.value, MAX_MESSAGE_LENGTH) = Slice(CleanedInput, MAX_MESSAGE_LENGTH)
              /\ output.value = Canon(Slice(CleanedInput, MAX_MESSAGE_LENGTH) \o TruncationMarker)
              /\ StrLen(output.value) = MAX_MESSAGE_LENGTH + StrLen(TruncationMarker)
        /\ StrLen(CleanedInput) <= MAX_MESSAGE_LENGTH => output.value = CleanedInput
        /\ StrLen(output.value) <= MAX_MESSAGE_LENGTH + StrLen(TruncationMarker)

\* C21, its case: a message with backticks and three newlines in a row, longer
\* than 500 characters once cleaned, was sanitized
C21_Witness ==
    /\ IsSet(output) /\ output.function = "sanitize_output"
    /\ \E i \in DOMAIN input : input[i].char = Backtick
    /\ \E i \in DOMAIN input : input[i].char = NL /\ input[i].count >= 3
    /\ StrLen(CleanedInput) > MAX_MESSAGE_LENGTH

\* the token sequences _lcs is called with
CandidateTokens == word_tokenize_lower(input.generated)
ReferenceTokens == word_tokenize_lower(input.reference)

\* the subsequences of s: what is left of s when some of its elements are removed
Subsequences(s) ==
    { [k \in 1..Cardinality(I) |->
          s[CHOOSE i \in I : Cardinality({j \in I : j < i}) = k - 1]] : I \in SUBSET (DOMAIN s) }

\* the length of a longest common subsequence, from its definition
LongestCommon(a, b) ==
    CHOOSE n \in 0..Len(a) :
        /\ \E c \in Subsequences(a) \cap Subsequences(b) : Len(c) = n
        /\ \A c \in Subsequences(a) \cap Subsequences(b) : Len(c) <= n

\* C27: _lcs(a, b) is the length of a longest common subsequence of the token
\* sequences a and b (0 when either is empty); it is the same for (b, a), is
\* never more than min(|a|, |b|), and is |a| when a = b.
C27_LcsIsLongestCommonSubsequence ==
    (IsSet(output) /\ output.function = "_lcs") =>
        /\ output.value = LongestCommon(CandidateTokens, ReferenceTokens)
        /\ output.value = lcs(ReferenceTokens, CandidateTokens)
        /\ output.value <= Len(CandidateTokens)
        /\ output.value <= Len(ReferenceTokens)
        /\ (CandidateTokens = << >> \/ ReferenceTokens = << >>) => output.value = 0
        /\ CandidateTokens = ReferenceTokens => output.value = Len(CandidateTokens)

\* C27, its case: two sequences, neither a subsequence of the other, whose
\* longest common subsequence is not contiguous in the first
C27_Witness ==
    /\ IsSet(output) /\ output.function = "_lcs"
    /\ input.generated = << "total", "price", "price", "total" >>
    /\ input.reference = << "price", "total", "total", "price", "total" >>
    /\ output.value = 3

\* the timestamps of a client that are less than 60 seconds old
StillRecent(c) == SelectSeq(rate_limit_store[c], LAMBDA t : Recent(now, t))

\* C30: the rate-limit check runs first and records the request before any
\* content check: a validate_input call rejected as empty, oversized, too long,
\* malformed or sensitive still adds its timestamp to the client's list, a
\* call rejected by the rate limit adds none, and no call changes the stored
\* timestamps of another client identity.
C30_RateCheckFirstAndPerClient ==
    [][threads' # threads =>
         /\ rate_result'.checks_performed[1] = "rate_limit"
         /\ \A c \in ClientIdentities \ {rate_result'.ip_address} :
               rate_limit_store'[c] = rate_limit_store[c]
         /\ rate_result'.is_allowed <=> Len(StillRecent(rate_result'.ip_address)) < RATE_LIMIT_RPM
         /\ rate_result'.is_allowed =>
               rate_limit_store'[rate_result'.ip_address] =
                   Append(StillRecent(rate_result'.ip_address), now)
         /\ ~rate_result'.is_allowed =>
               /\ rate_limit_store'[rate_result'.ip_address] = StillRecent(rate_result'.ip_address)
               /\ rate_result'.checks_performed = << "rate_limit" >>
               /\ ~rate_result'.is_valid
         /\ ContentResults[rate_result'.diff].is_valid \/ ~rate_result'.is_valid]_vars

\* C30, its case: a call rejected by a content check has left its timestamp in
\* the list of its client, which is now full, while the other client has
\* timestamps of its own
C30_Witness ==
    /\ IsSet(rate_result)
    /\ rate_result.is_allowed /\ ~rate_result.is_valid
    /\ Len(rate_limit_store[rate_result.ip_address]) = RATE_LIMIT_RPM
    /\ rate_limit_store[rate_result.ip_address][RATE_LIMIT_RPM] = now
    /\ \E c \in ClientIdentities \ {rate_result.ip_address} : rate_limit_store[c] # << >>

\* C26: in the /generateCommit and /checkCommit flows the hallucination
\* severity that is reported and logged is assess_hallucination_severity of the
\* rate and the detected flag of the evaluator's report: a report with
\* detected = true and rate 0.40 is reported as CRITICAL, one with 0.15 as
\* MEDIUM.
C26_SeverityOfTheReport ==
    (IsSet(output) /\ output.function \in {"generate_commit", "check_commit"}) =>
        /\ output.value.hallucination_severity =
              assess_hallucination_severity(
                  PyFloat(output.value.hallucination.hallucination_rate),
                  PyBool(output.value.hallucination.detected))
        /\ (output.value.hallucination.detected
              /\ output.value.hallucination.hallucination_rate = 4000)
             => output.value.hallucination_severity = "CRITICAL"
        /\ (output.value.hallucination.detected
              /\ output.value.hallucination.hallucination_rate = 1500)
             => output.value.hallucination_severity = "MEDIUM"

\* the hallucination report of the message being validated against the diff
MessageReport == detect_hallucination(current_message, diff)

\* the classifier's severity for that report
MessageSeverity ==
    assess_hallucination_severity(PyFloat(MessageReport.hallucination_rate),
                                  PyBool(MessageReport.detected))

\* C25: the validator never returns is_valid = true for a message whose
\* hallucination report against the diff has detected = true with a rate of
\* 0.10 or more: the severity of its verdict is the classifier's severity for
\* the report's (rate, detected), its confidence is get_confidence_level of the
\* evaluated quality score and that severity, and only severity NONE or LOW
\* with confidence MEDIUM or HIGH and quality >= 0.3 is judged valid.
C25_HallucinatedMessageNeverValid ==
    [][(pc = "validate" /\ pc' \in {"refine", "final"}) =>
          /\ (MessageReport.detected /\ MessageReport.hallucination_rate >= 1000)
                => ~val_result'.is_valid
          /\ val_result'.feedback.severity = MessageSeverity
          /\ val_result'.feedback.confidence =
                get_confidence_level(Get(val_result'.metrics, "quality_score", 5000),
                                     MessageSeverity)
          /\ val_result'.is_valid <=>
                /\ MessageSeverity \in {"NONE", "LOW"}
                /\ val_result'.feedback.confidence \in {"MEDIUM", "HIGH"}
                /\ Get(val_result'.metrics, "quality_score", 5000) >= 3000]_vars

\* the names of the agents of the trail, in order
TrailAgents == [i \in DOMAIN audit_trail |-> audit_trail[i].agent_name]

\* C24: in the audit trail of a completed run every RefinerAgent decision
\* comes right after a ValidatorAgent decision with is_valid = false and right
\* before a ValidatorAgent decision, GeneratorAgent appears once and first, the
\* last entry is a ValidatorAgent decision, and there are at most
\* max_iterations RefinerAgent decisions.
C24_TrailFollowsStateMachine ==
    pc = "done" =>
        /\ \A i \in DOMAIN audit_trail :
              TrailAgents[i] = "RefinerAgent" =>
                  /\ i > 1 /\ i < Len(audit_trail)
                  /\ TrailAgents[i - 1] = "ValidatorAgent"
                  /\ ~audit_trail[i - 1].output_data.is_valid
                  /\ TrailAgents[i + 1] = "ValidatorAgent"
        /\ {i \in DOMAIN audit_trail : TrailAgents[i] = "GeneratorAgent"} = {1}
        /\ TrailAgents[Len(audit_trail)] = "ValidatorAgent"
        /\ Cardinality({i \in DOMAIN audit_trail : TrailAgents[i] = "RefinerAgent"})
              <= max_iterations

\* C24, its case: a completed run that refined as often as its budget allows
C24_Witness ==
    /\ pc = "done"
    /\ max_iterations = MaxIterBound
    /\ Cardinality({i \in DOMAIN audit_trail : TrailAgents[i] = "RefinerAgent"}) = MaxIterBound

\* C28: in every completed run final_message is the message the generator
\* produced: no refinement of the loop changes the message, and a refinement
\* to which no rewrite rule applies returns its input under the change
\* "Applied LLM-based refinement".
C28_FinalMessageIsGenerated ==
    /\ [](pc = "done" => result.final_message = GeneratedMessage(model_result))
    /\ [][(pc = "refine" /\ pc' # "raised") =>
              /\ current_message' = current_message
              /\ ref_result'.refined_message = current_message
              /\ ref_result'.changes_made =
                    IF val_result.feedback.suggestions # << >>
                    THEN << "Applied LLM-based refinement" >> ELSE << >>]_vars

\* C28, its case: a completed run whose refinements recorded the change
\* "Applied LLM-based refinement"
C28_Witness ==
    /\ pc = "done"
    /\ iteration >= 1
    /\ ref_result.changes_made = << "Applied LLM-based refinement" >>
    /\ result.final_message = GeneratedMessage(model_result)

\* C29: with an empty reference_message every verdict of the validator is
\* is_valid = true, with severity NONE and confidence HIGH, so that a run with
\* max_iterations >= 1 refines nothing and its audit trail is GeneratorAgent,
\* ValidatorAgent, ValidatorAgent.
C29_NoReferenceAlwaysValid ==
    reference_message = << >> =>
        /\ IsSet(val_result) =>
              /\ val_result.is_valid
              /\ val_result.feedback.severity = "NONE"
              /\ val_result.feedback.confidence = "HIGH"
        /\ Started_("RefinerAgent") = 0
        /\ \A i \in DOMAIN audit_trail :
              TrailAgents[i] = "ValidatorAgent" => audit_trail[i].output_data.is_valid
        /\ (pc = "done" /\ max_iterations >= 1) =>
              TrailAgents = << "GeneratorAgent", "ValidatorAgent", "ValidatorAgent" >>

\* C29, its case: a run without a reference and with the largest budget that
\* returned
C29_Witness ==
    /\ pc = "done"
    /\ reference_message = << >>
    /\ max_iterations = MaxIterBound
    /\ Len(audit_trail) = 3

\* C23: AuditLogger is an append-only sink with most-recent-first queries: each
\* log_api_call, log_hallucination and log_safety_violation call appends exactly
\* one entry to its own log and changes no existing entry nor any other log, the
\* session counters equal the numbers of calls of the matching kind, and
\* get_recent_logs(type, limit) returns the last min(limit, n) entries of that
\* log, the newest first.
LogOf == [log_api_call |-> "api", log_hallucination |-> "hallucination",
          log_safety_violation |-> "safety"]

LogCallAppendsOne ==
    (input' # input /\ input'.function \in DOMAIN LogOf) =>
        LET own == LogOf[input'.function] IN
        /\ audit_logger'.files[own] = Append(audit_logger.files[own], input'.entry)
        /\ \A other \in LogTypes \ {own} :
               audit_logger'.files[other] = audit_logger.files[other]
        /\ audit_logger'.session_stats[SessionCounter[own]] =
               audit_logger.session_stats[SessionCounter[own]] + 1
        /\ \A other \in LogTypes \ {own} :
               audit_logger'.session_stats[SessionCounter[other]] =
                   audit_logger.session_stats[SessionCounter[other]]

CountersCountCalls ==
    \A t \in LogTypes :
        audit_logger.session_stats[SessionCounter[t]] = Len(audit_logger.files[t])

RecentLogsNewestFirst ==
    (IsSet(output) /\ output.function = "get_recent_logs" /\ input.log_type \in LogTypes) =>
        LET logs == audit_logger.files[input.log_type]
            n    == Len(logs)
            k    == IF input.limit < n THEN input.limit ELSE n
        IN  /\ Len(output.value) = k
            /\ \A i \in 1..k : output.value[i] = logs[n + 1 - i]

C23_AppendOnlyNewestFirst ==
    /\ [](CountersCountCalls /\ RecentLogsNewestFirst)
    /\ [][LogCallAppendsOne]_vars

\* C22: the audit trail handed back with a run's result contains only the
\* decisions made during that run, and no later run on the same orchestrator
\* changes the trail of a result handed back earlier.
RunStartedAt ==
    IF earlier_results = << >> THEN 0 ELSE earlier_results[Len(earlier_results)].decisions

DecisionsOfThisRun == SubSeq(audit_trail, RunStartedAt + 1, Len(audit_trail))

C22_TrailOfOneRunOnly ==
    /\ pc = "done" => result.agent_decisions = DecisionsOfThisRun
    /\ \A i \in DOMAIN earlier_results :
           IsSet(earlier_results[i].returned) =>
               agent_decisions_now(earlier_results[i].returned) =
                   earlier_results[i].returned.agent_decisions

====
